---- MODULE Spec2Model ----
(***************************************************************************)
(* A model of the searchku backend: the Book/Page store behind the         *)
(* routers (routers/books.py, routers/pages.py, routers/translation.py),   *)
(* the embedding service they call, the file service that extracts pages   *)
(* from uploads, and the search service (services/search_service.py).      *)
(*                                                                         *)
(* Texts are sequences of one-character strings, so that Python's strip,   *)
(* lower, split and find are computed and not assumed.  Embedding vectors  *)
(* are vectors of norm 10, so that the cosine similarity of two of them,   *)
(* in hundredths, is their dot product (0.6 is 60, 0.7 is 70).             *)
(***************************************************************************)
EXTENDS Integers, Sequences, FiniteSets, TLC

(***************************************************************************)
(* Bounds of the model.                                                    *)
(***************************************************************************)
MaxBooks == 2        \* books ever created
MaxPages == 2        \* page rows ever inserted
MaxPageNumber == 2   \* page numbers a create_page request may carry
MaxFiles == 2        \* files in one upload_files_bulk request
CorpusSize == 6      \* pages of the corpus the searches run over
MaxTies == 2         \* corpus pages with the same text
MaxSearches == 3     \* calls a paging caller makes

Clients == {"c1", "c2"}

(***************************************************************************)
(* Python values.                                                          *)
(***************************************************************************)
\* Python's None where a string is optional: a value that is no sequence of
\* characters, and not the empty string <<>>.
None == <<"None">>

\* bool(x) of an optional string or list.
Truthy(x) == x # None /\ x # <<>>

\* The whitespace str.strip() and str.split() remove (the ASCII part of it).
Whitespace == {" ", "\t", "\n", "\r", "\f"}

RECURSIVE LStrip(_)
LStrip(s) == IF s # <<>> /\ Head(s) \in Whitespace THEN LStrip(Tail(s)) ELSE s

RECURSIVE RStrip(_)
RStrip(s) ==
    IF s # <<>> /\ s[Len(s)] \in Whitespace THEN RStrip(SubSeq(s, 1, Len(s) - 1)) ELSE s

\* str.strip()
Strip(s) == RStrip(LStrip(s))

\* str.replace("\n", " ")
ReplaceNewlines(s) == [i \in 1..Len(s) |-> IF s[i] = "\n" THEN " " ELSE s[i]]

\* str.lower(), on the letters the texts of this module are written in.
LowerChar(c) ==
    CASE c = "T" -> "t" [] c = "O" -> "o" [] c = "D" -> "d" [] c = "I" -> "i"
      [] c = "B" -> "b" [] c = "X" -> "x"
      [] OTHER -> c

Lower(s) == [i \in 1..Len(s) |-> LowerChar(s[i])]

\* str.split(): the maximal runs of characters that are not whitespace.
RECURSIVE Split(_)
Split(s) ==
    LET t == LStrip(s) IN
    IF t = <<>> THEN <<>>
    ELSE LET n == CHOOSE k \in 1..Len(t) :
                      /\ \A i \in 1..k : t[i] \notin Whitespace
                      /\ (k = Len(t) \/ t[k + 1] \in Whitespace)
         IN <<SubSeq(t, 1, n)>> \o Split(SubSeq(t, n + 1, Len(t)))

\* str.find(sub): the 0-based index of the first occurrence of sub, or -1.
Find(s, sub) ==
    LET at == {i \in 0..(Len(s) - Len(sub)) : SubSeq(s, i + 1, i + Len(sub)) = sub} IN
    IF at = {} THEN -1 ELSE CHOOSE i \in at : \A j \in at : i <= j

\* s[a:b] for 0 <= a <= b.
Slice(s, a, b) == SubSeq(s, a + 1, IF b < Len(s) THEN b ELSE Len(s))

\* An Optional[int] or Optional[float] argument: left out, or given.
Absent == [given |-> FALSE, value |-> 0]

Given(v) == [given |-> TRUE, value |-> v]

\* `x or default` on such an argument: None and zero are both falsy.
OrDefault(x, default) == IF x.given /\ x.value # 0 THEN x.value ELSE default

(***************************************************************************)
(* The embedding service.                                                  *)
(***************************************************************************)
\* pages.embedding_vector is a Vector(1536) column.
ColumnDimension == 1536

\* A vector of the model has one entry for every EntryWidth consecutive
\* elements of the program's vector: a vector that fits the column has two
\* entries.  The dimensions of the model are multiples of EntryWidth.
EntryWidth == ColumnDimension \div 2

\* _initialize: a text-embedding-3-large dimension above 2000 becomes 1536.
PgvectorLimit == 2000

ReducedDimension == 1536

\* The deployments: EMBEDDING_PROVIDER, whether the provider's API key is
\* set, the provider's model, EMBEDDING_DIMENSION, and the number of elements
\* the model answers with when it is not asked for a size; the service is
\* constructed uninitialized.
Deployments ==
    {[provider |-> "openai", api_key |-> TRUE, initialized |-> FALSE,
      model |-> "text-embedding-3-large", dimension |-> 1536, native_dimension |-> 3072],
     [provider |-> "gemini", api_key |-> FALSE, initialized |-> FALSE,
      model |-> "models/gemini-embedding-001", dimension |-> 1536, native_dimension |-> 3072]}

\* No vector: generate_embedding's None and the NULL of pages.embedding_vector.
NoVector == <<>>

\* What the provider answers for a cleaned text when its call succeeds.  The
\* provider is opaque: all the model needs is that the vector is a function
\* of the text sent, and that different texts can lie at different angles.
ProviderVector(cleaned) ==
    IF "a" \in {cleaned[i] : i \in 1..Len(cleaned)} THEN <<10, 0>>
    ELSE IF "b" \in {cleaned[i] : i \in 1..Len(cleaned)} THEN <<8, 6>>
    ELSE IF "c" \in {cleaned[i] : i \in 1..Len(cleaned)} THEN <<8, -6>>
    ELSE <<-8, 6>>

\* The number of entries of the provider's answer: the text-embedding-3
\* models are sent dimensions=self.dimension and answer with that many
\* elements, every other model answers with its own size.
ProviderEntries(svc) ==
    IF svc.provider = "openai" /\ svc.model \in {"text-embedding-3-large", "text-embedding-3-small"}
    THEN svc.dimension \div EntryWidth
    ELSE svc.native_dimension \div EntryWidth

\* The provider's answer for a cleaned text: ProviderVector, cut or continued
\* to the provider's size.
ProviderResponse(svc, cleaned) ==
    [i \in 1..ProviderEntries(svc) |-> IF i <= 2 THEN ProviderVector(cleaned)[i] ELSE 1]

\* Whether the pgvector column takes the value.
VectorColumnAccepts(v) == v = NoVector \/ Len(v) * EntryWidth = ColumnDimension

\* EmbeddingService._initialize: TRUE when it returns, FALSE when it raises
\* ValueError (missing key, unsupported provider).
InitializeSucceeds(svc) ==
    \/ svc.initialized
    \/ svc.provider \in {"openai", "gemini"} /\ svc.api_key

\* The service after a call of _initialize.
Initialize(svc) ==
    IF svc.initialized \/ ~InitializeSucceeds(svc) THEN svc
    ELSE IF svc.provider = "openai" /\ svc.model = "text-embedding-3-large" /\ svc.dimension > PgvectorLimit
    THEN [svc EXCEPT !.initialized = TRUE, !.dimension = ReducedDimension]
    ELSE [svc EXCEPT !.initialized = TRUE]

\* EmbeddingService._generate_openai_embedding on the provider's answer: an
\* answer of another length than self.dimension is refused.
generate_openai_embedding(svc, embedding) ==
    IF Len(embedding) * EntryWidth # svc.dimension THEN NoVector ELSE embedding

\* The Gemini adapter without the adjustment of the length.
GeminiEmbeddingAsAnswered(svc, embedding) == embedding

\* EmbeddingService._generate_gemini_embedding on the provider's answer: a
\* shorter answer is padded with zeros, a longer one is cut to the first
\* self.dimension elements.
generate_gemini_embedding(svc, embedding) ==
    [i \in 1..(svc.dimension \div EntryWidth) |-> IF i <= Len(embedding) THEN embedding[i] ELSE 0]

\* EmbeddingService.generate_embedding(text): [raised, value, called].
\* provider_ok says whether the provider call, if one is made, succeeds;
\* called says whether one is made.
GenerateEmbedding(svc, text, provider_ok) ==
    LET cleaned_text == ReplaceNewlines(Strip(text))
        self == Initialize(svc)
    IN
    IF ~InitializeSucceeds(svc) THEN [raised |-> TRUE, value |-> NoVector, called |-> FALSE]
    ELSE IF cleaned_text = <<>> THEN [raised |-> FALSE, value |-> NoVector, called |-> FALSE]
    ELSE IF ~provider_ok THEN [raised |-> FALSE, value |-> NoVector, called |-> TRUE]
    ELSE IF self.provider = "openai"
    THEN [raised |-> FALSE, called |-> TRUE,
          value |-> generate_openai_embedding(self, ProviderResponse(self, cleaned_text))]
    ELSE [raised |-> FALSE, called |-> TRUE,
          value |-> generate_gemini_embedding(self, ProviderResponse(self, cleaned_text))]

\* EmbeddingService._generate_openai_embeddings_batch: one provider call
\* carries all the valid texts, and the provider refuses the whole request
\* when it cannot embed one of them; provider_ok[i] says whether it can embed
\* texts[i].  An answer of another length than self.dimension leaves its
\* slot None.
generate_openai_embeddings_batch(svc, cleaned_texts, valid_indices, provider_ok) ==
    IF \E i \in valid_indices : ~provider_ok[i]
    THEN [i \in 1..Len(cleaned_texts) |-> NoVector]
    ELSE [i \in 1..Len(cleaned_texts) |->
              IF i \in valid_indices
              THEN generate_openai_embedding(svc, ProviderResponse(svc, cleaned_texts[i]))
              ELSE NoVector]

\* EmbeddingService._generate_gemini_embeddings_batch: one provider call per
\* valid text, each in its own try.
generate_gemini_embeddings_batch(svc, cleaned_texts, valid_indices, provider_ok) ==
    [i \in 1..Len(cleaned_texts) |->
         IF i \in valid_indices /\ provider_ok[i]
         THEN generate_gemini_embedding(svc, ProviderResponse(svc, cleaned_texts[i]))
         ELSE NoVector]

\* EmbeddingService.generate_embeddings_batch(texts): [raised, value].
GenerateEmbeddingsBatch(svc, texts, provider_ok) ==
    LET cleaned_texts == [i \in 1..Len(texts) |-> ReplaceNewlines(Strip(texts[i]))]
        valid_indices == {i \in 1..Len(texts) : cleaned_texts[i] # <<>>}
        self == Initialize(svc)
    IN
    IF ~InitializeSucceeds(svc) THEN [raised |-> TRUE, value |-> <<>>]
    ELSE IF valid_indices = {}
    THEN [raised |-> FALSE, value |-> [i \in 1..Len(texts) |-> NoVector]]
    ELSE IF self.provider = "openai"
    THEN [raised |-> FALSE,
          value |-> generate_openai_embeddings_batch(self, cleaned_texts, valid_indices, provider_ok)]
    ELSE [raised |-> FALSE,
          value |-> generate_gemini_embeddings_batch(self, cleaned_texts, valid_indices, provider_ok)]

(***************************************************************************)
(* State.                                                                  *)
(***************************************************************************)
VARIABLES
    books,              \* the rows of table books: [id, cover_image_url]
    pages,              \* the rows of table pages
    next_book_id,       \* the sequence behind books.id
    next_page_id,       \* the sequence behind pages.id
    embedding_service,  \* the EmbeddingService singleton: [provider, api_key, initialized]
    inflight,           \* per client, the create_page request being served, or Idle
    response,           \* the response of the handler that completed last
    search_log          \* the results of the search calls made so far

vars == <<books, pages, next_book_id, next_page_id, embedding_service,
          inflight, response, search_log>>

Idle == [op |-> "idle"]

NoResponse == [op |-> "none"]

\* The texts a request may carry as original_text.
Texts == {<<>>, <<" ">>, <<"a">>}

\* The values a request may carry for an optional translation.
Translations == {None, <<"x">>}

\* The values a BookCreate may carry as cover_image_url.
Covers == {None, <<"u">>}

BookRow(book_id) == {b \in books : b.id = book_id}

PageRow(book_id, page_number) ==
    {p \in pages : p.book_id = book_id /\ p.page_number = page_number}

\* A table without the constraint _book_page_uc.
UniqueConstraintAbsent(rows) == TRUE

\* UniqueConstraint('book_id', 'page_number') over a set of rows.
UniqueConstraintHolds(rows) ==
    \A p, q \in rows :
        (p.book_id = q.book_id /\ p.page_number = q.page_number) => p.id = q.id

\* ForeignKey("books.id") over a set of rows.
ForeignKeyHolds(rows, bs) ==
    \A p \in rows : \E b \in bs : b.id = p.book_id

\* Page(...) as the routers construct it; the columns they do not pass are NULL.
NewPage(id, book_id, page_number, text, vector, image) ==
    [id |-> id, book_id |-> book_id, page_number |-> page_number,
     original_text |-> text, embedding_vector |-> vector,
     en_translation |-> None, id_translation |-> None, page_image_url |-> image]

SetCover(bs, book_id, url) ==
    {IF b.id = book_id THEN [b EXCEPT !.cover_image_url = url] ELSE b : b \in bs}

Init ==
    /\ books = {}
    /\ pages = {}
    /\ next_book_id = 1
    /\ next_page_id = 1
    /\ embedding_service \in Deployments
    /\ inflight = [c \in Clients |-> Idle]
    /\ response = NoResponse
    /\ search_log = <<>>

(***************************************************************************)
(* routers/books.py                                                        *)
(***************************************************************************)
create_book(cover) ==
    /\ next_book_id <= MaxBooks
    /\ books' = books \cup {[id |-> next_book_id, cover_image_url |-> cover]}
    /\ next_book_id' = next_book_id + 1
    /\ response' = [op |-> "create_book", status |-> 200]
    /\ UNCHANGED <<pages, next_page_id, embedding_service, inflight, search_log>>

\* upload_cover_image is called as (book_id, cover_image) and declared as
\* (file, book_id): it reads content_type off the integer and fails.
upload_book_cover(book_id) ==
    /\ response' = [op |-> "upload_book_cover",
                    status |-> IF BookRow(book_id) = {} THEN 404 ELSE 500]
    /\ UNCHANGED <<books, pages, next_book_id, next_page_id, embedding_service,
                   inflight, search_log>>

delete_book_cover(book_id) ==
    /\ IF BookRow(book_id) = {}
       THEN /\ response' = [op |-> "delete_book_cover", status |-> 404]
            /\ UNCHANGED books
       ELSE /\ books' = {IF b.id = book_id /\ Truthy(b.cover_image_url)
                         THEN [b EXCEPT !.cover_image_url = None] ELSE b : b \in books}
            /\ response' = [op |-> "delete_book_cover", status |-> 200]
    /\ UNCHANGED <<pages, next_book_id, next_page_id, embedding_service,
                   inflight, search_log>>

\* The pages left when the pages of a book are deleted with it.
CascadeKeepsPages(rows, book_id) == rows

\* relationship(cascade="all, delete-orphan") and ondelete="CASCADE": the
\* pages left once those of the deleted book are gone.
Cascade(rows, book_id) == {p \in rows : p.book_id # book_id}

\* db.delete(book): the pages go with it.  The response of the model keeps
\* how many pages went.
delete_book(book_id) ==
    /\ IF BookRow(book_id) = {}
       THEN /\ response' = [op |-> "delete_book", status |-> 404, pages_deleted |-> 0]
            /\ UNCHANGED <<books, pages>>
       ELSE /\ books' = books \ BookRow(book_id)
            /\ pages' = Cascade(pages, book_id)
            /\ response' = [op |-> "delete_book", status |-> 200,
                            pages_deleted |-> Cardinality(pages) - Cardinality(pages')]
    /\ UNCHANGED <<next_book_id, next_page_id, embedding_service, inflight, search_log>>

(***************************************************************************)
(* routers/pages.py: create_page.  The handler is served in two steps, the *)
(* checks before `await embedding_service.generate_embedding` and the      *)
(* rest after it; requests of different clients interleave between them.   *)
(***************************************************************************)
CreatePageResponse(c, req, status) ==
    [op |-> "create_page", book_id |-> req.book_id,
     page_number |-> req.page_number, status |-> status]

\* Lines 26-37: the book must exist and the page number must be free.
\* Status 0 stands for a request that is still being served.  The request's
\* original_text is first read after these lines, and is given to the step
\* that reads it.
create_page_check(c, book_id, page_number) ==
    LET req == [op |-> "create_page", book_id |-> book_id,
                page_number |-> page_number] IN
    /\ inflight[c] = Idle
    /\ next_page_id <= MaxPages
    /\ IF BookRow(book_id) = {}
       THEN /\ response' = CreatePageResponse(c, req, 404)
            /\ UNCHANGED inflight
       ELSE IF PageRow(book_id, page_number) # {}
       THEN /\ response' = CreatePageResponse(c, req, 400)
            /\ UNCHANGED inflight
       ELSE /\ inflight' = [inflight EXCEPT ![c] = req]
            /\ response' = CreatePageResponse(c, req, 0)
    /\ UNCHANGED <<books, pages, next_book_id, next_page_id, embedding_service, search_log>>

\* A cover step that assigns the page image whatever the book and page hold.
CreatePageCoverUnguarded(bs, db_page) ==
    SetCover(bs, db_page.book_id, db_page.page_image_url)

\* Lines 70-74: the cover is taken from the page just stored.
CreatePageCover(bs, db_page) ==
    LET book == CHOOSE b \in bs : b.id = db_page.book_id IN
    IF db_page.page_number = 1 /\ ~Truthy(book.cover_image_url)
       /\ Truthy(db_page.page_image_url)
    THEN SetCover(bs, db_page.book_id, db_page.page_image_url)
    ELSE bs

\* Lines 39-76: embed, insert, commit, cover.  An exception of the embedding
\* service or of the commit leaves the handler as a 500 and stores nothing.
create_page_commit(c, original_text, provider_ok) ==
    LET req == inflight[c]
        emb == IF Truthy(original_text)
               THEN GenerateEmbedding(embedding_service, original_text, provider_ok)
               ELSE [raised |-> FALSE, value |-> NoVector, called |-> FALSE]
        db_page == NewPage(next_page_id, req.book_id, req.page_number,
                           original_text, emb.value, None)
    IN
    /\ req # Idle
    /\ next_page_id <= MaxPages
    /\ inflight' = [inflight EXCEPT ![c] = Idle]
    /\ embedding_service' = IF Truthy(original_text)
                            THEN Initialize(embedding_service)
                            ELSE embedding_service
    /\ IF emb.raised
          \/ ~VectorColumnAccepts(db_page.embedding_vector)
          \/ ~UniqueConstraintHolds(pages \cup {db_page})
          \/ ~ForeignKeyHolds({db_page}, books)
       THEN /\ response' = CreatePageResponse(c, req, 500)
            /\ UNCHANGED <<books, pages, next_page_id>>
       ELSE /\ pages' = pages \cup {db_page}
            /\ next_page_id' = next_page_id + 1
            /\ books' = CreatePageCover(books, db_page)
            /\ response' = CreatePageResponse(c, req, 200)
    /\ UNCHANGED <<next_book_id, search_log>>

(***************************************************************************)
(* routers/pages.py: the other page handlers.                              *)
(***************************************************************************)
\* PATCH: a translation that the request leaves out (None) is kept.
update_page_translations(book_id, page_number, en, id) ==
    LET request(status) ==
            [op |-> "update_page_translations", book_id |-> book_id,
             page_number |-> page_number, en_translation |-> en,
             id_translation |-> id, status |-> status]
    IN
    /\ IF PageRow(book_id, page_number) = {}
       THEN /\ response' = request(404)
            /\ UNCHANGED pages
       ELSE /\ pages' =
                  {IF p \in PageRow(book_id, page_number)
                   THEN [p EXCEPT !.en_translation = IF en # None THEN en ELSE @,
                                  !.id_translation = IF id # None THEN id ELSE @]
                   ELSE p : p \in pages}
            /\ response' = request(200)
    /\ UNCHANGED <<books, next_book_id, next_page_id, embedding_service,
                   inflight, search_log>>

\* The fields of schemas.page.PageUpdate.
PageUpdateFields == {"en_translation", "id_translation"}

\* PUT: the handler reads page_data.original_text, which PageUpdate does not
\* have; the AttributeError leaves it as a 500 before any column is assigned.
update_page(book_id, page_number) ==
    /\ response' = [op |-> "update_page",
                    status |-> IF PageRow(book_id, page_number) = {} THEN 404
                               ELSE IF "original_text" \notin PageUpdateFields THEN 500
                               ELSE 200]
    /\ UNCHANGED <<books, pages, next_book_id, next_page_id, embedding_service,
                   inflight, search_log>>

delete_page(book_id, page_number) ==
    /\ IF PageRow(book_id, page_number) = {}
       THEN /\ response' = [op |-> "delete_page", status |-> 404]
            /\ UNCHANGED pages
       ELSE /\ pages' = pages \ PageRow(book_id, page_number)
            /\ response' = [op |-> "delete_page", status |-> 200]
    /\ UNCHANGED <<books, next_book_id, next_page_id, embedding_service,
                   inflight, search_log>>

(***************************************************************************)
(* routers/translation.py                                                  *)
(***************************************************************************)
\* What a call of the translation service gives: it raises (no key, provider
\* error, blocked content), or returns the translated text.
TranslationRaised == [raised |-> TRUE, text |-> <<>>]

TranslationText(t) == [raised |-> FALSE, text |-> t]

\* The translation written to both fields.
StoreTranslationInBoth(page, target_language, translated_text) ==
    [page EXCEPT !.en_translation = translated_text, !.id_translation = translated_text]

\* Lines 48-52: the field of the target language takes the translation.
StoreTranslation(page, target_language, translated_text) ==
    IF target_language = "en"
    THEN [page EXCEPT !.en_translation = translated_text]
    ELSE [page EXCEPT !.id_translation = translated_text]

\* POST /translation/: translate_page(request)
translate_page(page_id, target_language, use_image, translation) ==
    LET page == {p \in pages : p.id = page_id}
        used_image == \E p \in page : use_image /\ Truthy(p.page_image_url)
        answer(status, text, stored) ==
            [op |-> "translate_page", page_id |-> page_id,
             target_language |-> target_language, use_image |-> use_image,
             status |-> status, translated_text |-> text,
             stored_in_db |-> stored, used_image |-> used_image /\ stored]
    IN
    /\ IF page = {}
       THEN /\ response' = answer(404, <<>>, FALSE)
            /\ UNCHANGED pages
       ELSE IF translation.raised
       THEN /\ response' = answer(500, <<>>, FALSE)
            /\ UNCHANGED pages
       ELSE /\ pages' = {IF p \in page
                         THEN StoreTranslation(p, target_language, translation.text)
                         ELSE p : p \in pages}
            /\ response' = answer(200, translation.text, TRUE)
    /\ UNCHANGED <<books, next_book_id, next_page_id, embedding_service,
                   inflight, search_log>>

(***************************************************************************)
(* routers/pages.py: upload_files_bulk.                                    *)
(***************************************************************************)
allowed_types ==
    {"application/pdf", "application/msword",
     "application/vnd.openxmlformats-officedocument.wordprocessingml.document",
     "text/plain"}

\* The parameters FileService.process_bulk_text_upload declares after self,
\* and the arguments upload_files_bulk passes to it.
ProcessBulkTextUploadParameters == <<"content", "filename">>

ProcessBulkTextUploadArguments == <<"file_content", "file.filename", "book_id">>

\* Python binds the arguments when the call is made: with no defaults and no
\* *args, a different number of them is a TypeError, raised before the body
\* of process_bulk_text_upload runs.
ProcessBulkTextUploadCallRaises ==
    Len(ProcessBulkTextUploadArguments) # Len(ProcessBulkTextUploadParameters)

\* A page text as extraction returns it: stripped and longer than 10.
PageText(ch) == [i \in 1..11 |-> ch]

\* What process_bulk_text_upload(content, filename) does with a file's bytes:
\* it raises, or it returns the texts of the pages.
Raised == [raised |-> TRUE, pages |-> <<>>]

Extracted(texts) == [raised |-> FALSE, pages |-> texts]

\* The files a request may carry, without their names: declared content type,
\* and the outcome of extraction on the bytes.
FileKinds ==
    {[content_type |-> "text/plain", extraction |-> Extracted(<<PageText("a"), PageText("b")>>)],
     [content_type |-> "text/plain", extraction |-> Raised],
     [content_type |-> "image/png", extraction |-> Extracted(<<PageText("a")>>)]}

\* The requests of n files; the file at position i is named i.
FileLists(n) ==
    {[i \in 1..n |-> [filename |-> i, content_type |-> k[i].content_type,
                      extraction |-> k[i].extraction]] : k \in [1..n -> FileKinds]}

ErrorEntry(file, message) ==
    [filename |-> file.filename, status |-> "error", message |-> message]

SuccessEntry(file, pages_created) ==
    [filename |-> file.filename, status |-> "success",
     pages_created |-> Len(pages_created), pages |-> pages_created]

MaxOf(S) == CHOOSE m \in S : \A x \in S : x <= m

\* Lines 267-269: one more than the highest page number of the book, or 1.
NextPageNumber(rows, book_id) ==
    LET own == {p.page_number : p \in {q \in rows : q.book_id = book_id}} IN
    IF own = {} THEN 1 ELSE MaxOf(own) + 1

\* Lines 349-359: the cover is taken from the first page of the file.
UploadCover(bs, rows, book_id, pages_created, next_page_number) ==
    LET book == CHOOSE b \in bs : b.id = book_id
        first_page == {p \in rows : p.book_id = book_id /\ p.page_number = next_page_number}
    IN
    IF pages_created # <<>> /\ ~Truthy(book.cover_image_url)
       /\ \E p \in first_page : Truthy(p.page_image_url)
    THEN SetCover(bs, book_id, (CHOOSE p \in first_page : TRUE).page_image_url)
    ELSE bs

\* An except clause that reports the file as stored.
FileFailedReportedStored(s, file, message) ==
    [s EXCEPT !.results = Append(@, SuccessEntry(file, <<>>))]

\* The except clause of the file loop (lines 375-383): db.rollback() drops
\* what the session holds pending, and the file is reported.
FileFailed(s, file, message) ==
    [s EXCEPT !.results = Append(@, ErrorEntry(file, message))]

\* Lines 272-373, reached when extraction has returned page_data_list.
StoreFilePages(s, book_id, file, provider_ok) ==
    LET page_data_list == file.extraction.pages
        n == Len(page_data_list)
        next_page_number == NextPageNumber(s.pages, book_id)
        embeds == \E i \in 1..n : Truthy(page_data_list[i])
        embedding(i) ==
            IF Truthy(page_data_list[i])
            THEN GenerateEmbedding(s.svc, page_data_list[i], provider_ok)
            ELSE [raised |-> FALSE, value |-> NoVector, called |-> FALSE]
        \* page_data.get('page_image_url'): extraction returns no such key.
        pending == {NewPage(s.next_page_id + i - 1, book_id, next_page_number + i - 1,
                            page_data_list[i], embedding(i).value, None) : i \in 1..n}
        pages_created == [i \in 1..n |-> [page_number |-> next_page_number + i - 1,
                                          text_length |-> Len(page_data_list[i])]]
        committed == s.pages \cup pending
        called == [s EXCEPT !.svc = IF embeds THEN Initialize(@) ELSE @]
    IN
    IF \E i \in 1..n : embedding(i).raised
    THEN FileFailed(called, file, "embedding")
    ELSE IF \E p \in pending : ~VectorColumnAccepts(p.embedding_vector)
    THEN FileFailed(called, file, "DataError")
    ELSE IF ~UniqueConstraintHolds(committed) \/ ~ForeignKeyHolds(pending, s.books)
    THEN FileFailed(called, file, "IntegrityError")
    ELSE [pages |-> committed,
          books |-> UploadCover(s.books, committed, book_id, pages_created, next_page_number),
          next_page_id |-> s.next_page_id + n,
          svc |-> IF embeds THEN Initialize(s.svc) ELSE s.svc,
          results |-> Append(s.results, SuccessEntry(file, pages_created))]

\* One turn of the loop `for file in files` (lines 229-383).
ProcessFile(s, book_id, file, provider_ok) ==
    IF file.content_type \notin allowed_types
    THEN [s EXCEPT !.results = Append(@, ErrorEntry(file, "Unsupported file type"))]
    ELSE IF ProcessBulkTextUploadCallRaises
    THEN FileFailed(s, file, "TypeError")
    ELSE IF file.extraction.raised
    THEN FileFailed(s, file, "HTTPException")
    ELSE StoreFilePages(s, book_id, file, provider_ok)

RECURSIVE ProcessFiles(_, _, _, _, _)
ProcessFiles(s, book_id, files, i, provider_ok) ==
    IF i > Len(files) THEN s
    ELSE ProcessFiles(ProcessFile(s, book_id, files[i], provider_ok),
                      book_id, files, i + 1, provider_ok)

upload_files_bulk(book_id, files, provider_ok) ==
    LET s0 == [pages |-> pages, books |-> books, next_page_id |-> next_page_id,
               svc |-> embedding_service, results |-> <<>>]
        s == ProcessFiles(s0, book_id, files, 1, provider_ok)
    IN
    IF BookRow(book_id) = {}
    THEN /\ response' = [op |-> "upload_files_bulk", book_id |-> book_id,
                         status |-> 404, files |-> files, results |-> <<>>]
         /\ UNCHANGED <<books, pages, next_book_id, next_page_id, embedding_service,
                        inflight, search_log>>
    ELSE /\ pages' = s.pages
         /\ books' = s.books
         /\ next_page_id' = s.next_page_id
         /\ embedding_service' = s.svc
         /\ response' = [op |-> "upload_files_bulk", book_id |-> book_id,
                         status |-> 200, files |-> files, results |-> s.results]
         /\ UNCHANGED <<next_book_id, inflight, search_log>>

(***************************************************************************)
(* services/file_service.py: the pages of a PDF, and OCR.                  *)
(* A character that the module cannot write is a string that names it.     *)
(***************************************************************************)
\* Characters of the Arabic blocks that _clean_arabic_ocr_text keeps.
ArabicLetters == {"alef", "beh", "lam", "alef_hamza"}

\* The keys of `corrections` that differ from their values, with the values.
Corrections ==
    [hamza |-> <<"alef_hamza">>,
     lam_alef_isolated |-> <<"lam", "alef">>,
     lam_alef_final |-> <<"lam", "alef">>]

\* [ً-ٰٟـ]: the marks that are removed.
Diacritics == {"fathatan", "fatha", "tatweel"}

Digits == {"0", "1", "2", "3", "4", "5", "6", "7", "8", "9"}

\* . , ; : ! ? ( ) [ ] { } " ' - of the last character class.
Punctuation == {".", ",", ";", ":", "!", "?", "(", ")", "[", "]", "{", "}", "\"", "'", "-"}

\* re.sub(r'\s+', ' ', text): of a run of whitespace the first character
\* stays, as a space.
CollapseWhitespace(s) ==
    LET first == SelectSeq([i \in 1..Len(s) |-> i],
                           LAMBDA i : s[i] \notin Whitespace \/ i = 1
                                      \/ s[i - 1] \notin Whitespace)
    IN [k \in 1..Len(first) |-> IF s[first[k]] \in Whitespace THEN " " ELSE s[first[k]]]

\* text.replace(wrong, correct) for every entry of `corrections`, on the
\* two halves of the text.
RECURSIVE Correct(_)
Correct(s) ==
    IF s = <<>> THEN <<>>
    ELSE IF Len(s) = 1
    THEN (IF s[1] \in DOMAIN Corrections THEN Corrections[s[1]] ELSE s)
    ELSE Correct(SubSeq(s, 1, Len(s) \div 2)) \o Correct(SubSeq(s, Len(s) \div 2 + 1, Len(s)))

\* FileService._clean_arabic_ocr_text.  After the first substitution the
\* text holds no newline, so the two substitutions on newlines change
\* nothing; the last one keeps the Arabic blocks, whitespace, digits and the
\* punctuation listed, and nothing else.
clean_arabic_ocr_text(text) ==
    IF text = <<>> THEN text
    ELSE LET corrected == Correct(CollapseWhitespace(text))
             unmarked == SelectSeq(corrected, LAMBDA c : c \notin Diacritics)
             kept == SelectSeq(unmarked,
                               LAMBDA c : c \in ArabicLetters \cup Whitespace
                                                   \cup Digits \cup Punctuation)
         IN Strip(kept)

\* text.split('\n')
RECURSIVE SplitLines(_)
SplitLines(s) ==
    IF \A i \in 1..Len(s) : s[i] # "\n" THEN <<s>>
    ELSE LET n == CHOOSE k \in 1..Len(s) : s[k] = "\n" /\ \A i \in 1..(k - 1) : s[i] # "\n"
         IN <<SubSeq(s, 1, n - 1)>> \o SplitLines(SubSeq(s, n + 1, Len(s)))

\* The stripped lines of a sequence of lines that are not blank.
RECURSIVE StrippedLines(_)
StrippedLines(lines) ==
    IF lines = <<>> THEN <<>>
    ELSE (IF Strip(Head(lines)) # <<>> THEN <<Strip(Head(lines))>> ELSE <<>>)
         \o StrippedLines(Tail(lines))

\* ' '.join(lines)
RECURSIVE JoinWithSpace(_)
JoinWithSpace(lines) ==
    IF lines = <<>> THEN <<>>
    ELSE IF Len(lines) = 1 THEN Head(lines)
    ELSE Head(lines) \o <<" ">> \o JoinWithSpace(Tail(lines))

\* A page that goes to OCR whatever its text layer holds.
HasMeaningfulTextNever(page_text) == FALSE

\* Lines 448-470: more than 50 characters once stripped, at least 30% of the
\* lines longer than 10 characters, and the first five of those lines
\* joined at least 30 characters long.
has_meaningful_text(page_text) ==
    LET lines == StrippedLines(SplitLines(Strip(page_text)))
        substantial_lines == SelectSeq(lines, LAMBDA line : Len(line) > 10)
        text_sample == JoinWithSpace(SubSeq(substantial_lines, 1,
                                            IF Len(substantial_lines) < 5
                                            THEN Len(substantial_lines) ELSE 5))
    IN
    /\ Len(Strip(page_text)) > 50
    /\ ~(10 * Len(substantial_lines) < 3 * Len(lines))
    /\ ~(Len(text_sample) < 30)

\* What a call of pytesseract.image_to_string does: it raises, or it
\* returns a text.
OcrRaised == [raised |-> TRUE, text |-> <<>>]

OcrText(text) == [raised |-> FALSE, text |-> text]

\* The configurations of _process_pdf_with_smart_ocr (lines 514-518) and of
\* _extract_text_with_ocr (lines 197-206), in the order of the lists.
smart_ocr_configs == <<"PSM 6", "PSM 1", "PSM 7">>

ocr_configs == <<"PSM 6 with spacing", "PSM 1 with spacing", "PSM 7 single line", "PSM 6 standard">>

\* A loop that goes on whatever the length of a result.
NeverGoodEnough(length) == FALSE

\* `if best_length > 100: break` (line 529), `if text_length > 100: break`
\* (line 222).
GoodEnough(length) == length > 100

\* Before the first configuration: best_text = "", best_length = 0.
NoAttempt == [best_text |-> <<>>, best_length |-> 0, tried |-> <<>>]

\* Lines 523-532, from configuration i on: outcomes[i] is what configuration
\* i does when it is called.  The break sits inside the branch that has just
\* raised best_length.
RECURSIVE SmartOcrLoop(_, _, _)
SmartOcrLoop(outcomes, i, best) ==
    IF i > Len(outcomes) THEN best
    ELSE LET called == [best EXCEPT !.tried = Append(@, i)]
             text_result == outcomes[i].text
         IN
         IF outcomes[i].raised THEN SmartOcrLoop(outcomes, i + 1, called)
         ELSE IF Len(Strip(text_result)) > best.best_length
         THEN LET better == [called EXCEPT !.best_text = text_result,
                                           !.best_length = Len(Strip(text_result))]
              IN IF GoodEnough(better.best_length) THEN better
                 ELSE SmartOcrLoop(outcomes, i + 1, better)
         ELSE SmartOcrLoop(outcomes, i + 1, called)

\* Lines 208-227, from configuration i on: the break is tested on the length
\* of every result.
RECURSIVE OcrLoop(_, _, _)
OcrLoop(outcomes, i, best) ==
    IF i > Len(outcomes) THEN best
    ELSE LET called == [best EXCEPT !.tried = Append(@, i)]
             page_text == outcomes[i].text
             text_length == Len(Strip(page_text))
             kept == IF text_length > best.best_length
                     THEN [called EXCEPT !.best_text = page_text, !.best_length = text_length]
                     ELSE called
         IN
         IF outcomes[i].raised THEN OcrLoop(outcomes, i + 1, called)
         ELSE IF GoodEnough(text_length) THEN kept
         ELSE OcrLoop(outcomes, i + 1, kept)

\* One turn of `for page_num in range(pdf_document.page_count)` (lines
\* 442-553) on the page doc[page_num + 1]: the pages list with what the turn
\* appends, and the OCR attempts of the page.  A page is [raises, text,
\* raster_ok, ocr]: whether get_text raises, the text layer, whether the page
\* can be made an image, and what each OCR configuration does.
ProcessPdfPage(s, doc, page_num) ==
    LET page == doc[page_num + 1]
        unsent == [sent |-> FALSE, outcomes |-> page.ocr, tried |-> <<>>, best_text |-> <<>>]
        best == SmartOcrLoop(page.ocr, 1, NoAttempt)
        stripped == Strip(best.best_text)
        ocr_text == IF stripped # <<>> THEN clean_arabic_ocr_text(stripped) ELSE stripped
        emitted(text, method) ==
            [text |-> text, extraction_method |-> method, page_number |-> page_num + 1]
    IN
    IF page.raises THEN [s EXCEPT !.attempts = Append(@, unsent)]
    ELSE IF has_meaningful_text(page.text)
    THEN [pages |-> IF Strip(page.text) # <<>>
                    THEN Append(s.pages, emitted(Strip(page.text), "text_extraction"))
                    ELSE s.pages,
          attempts |-> Append(s.attempts, unsent)]
    ELSE IF ~page.raster_ok THEN [s EXCEPT !.attempts = Append(@, unsent)]
    ELSE [pages |-> IF ocr_text # <<>> /\ Len(ocr_text) > 10
                    THEN Append(s.pages, emitted(ocr_text, "ocr"))
                    ELSE s.pages,
          attempts |-> Append(s.attempts,
                              [sent |-> TRUE, outcomes |-> page.ocr, tried |-> best.tried,
                               best_text |-> best.best_text])]

RECURSIVE ProcessPdfPages(_, _, _)
ProcessPdfPages(s, doc, page_num) ==
    IF page_num >= Len(doc) THEN s
    ELSE ProcessPdfPages(ProcessPdfPage(s, doc, page_num), doc, page_num + 1)

\* FileService._process_pdf_with_smart_ocr on a document that opens: the
\* pages returned (those of non-blank text), and the OCR attempts per page.
process_pdf_with_smart_ocr(doc) ==
    LET s == ProcessPdfPages([pages |-> <<>>, attempts |-> <<>>], doc, 0) IN
    [valid_pages |-> SelectSeq(s.pages, LAMBDA q : Strip(q.text) # <<>>),
     attempts |-> s.attempts]

\* FileService._extract_text_with_ocr on the image of one page (lines
\* 161-245): the text returned and the OCR attempts.
extract_text_with_ocr(outcomes) ==
    LET best == OcrLoop(outcomes, 1, NoAttempt)
        page_text == IF Strip(best.best_text) # <<>>
                     THEN clean_arabic_ocr_text(best.best_text)
                     ELSE best.best_text
        text_content == IF Strip(page_text) # <<>>
                        THEN page_text \o <<"\n", "\n", "\n">> ELSE <<>>
    IN
    [text |-> Strip(text_content),
     attempts |-> <<[sent |-> TRUE, outcomes |-> outcomes, tried |-> best.tried,
                     best_text |-> best.best_text]>>]

(***************************************************************************)
(* services/file_service.py: text files, Word documents and the dispatch   *)
(* of process_bulk_text_upload.  A file is [extension, size, content]; the *)
(* content of a text file is [utf8, text], that of a Word document is      *)
(* [opens, paragraphs], that of a PDF is [doc].                            *)
(***************************************************************************)
max_file_size == 10 * 1024 * 1024

chunk_size == 1000

TripleNewline == <<"\n", "\n", "\n">>

FormFeed == <<"\f">>

DoubleNewline == <<"\n", "\n">>

\* _get_content_type_from_filename
content_types(extension) ==
    CASE extension = "txt" -> "text/plain"
      [] extension = "md" -> "text/markdown"
      [] extension = "pdf" -> "application/pdf"
      [] extension = "doc" -> "application/msword"
      [] extension = "docx" -> "application/vnd.openxmlformats-officedocument.wordprocessingml.document"
      [] OTHER -> "text/plain"

WordTypes == {"application/vnd.openxmlformats-officedocument.wordprocessingml.document",
              "application/msword"}

\* str.split(sep) for a non-empty sep: the pieces between the occurrences of
\* sep, found from the left.
RECURSIVE SplitOn(_, _)
SplitOn(s, sep) ==
    LET at == Find(s, sep) IN
    IF at = -1 THEN <<s>>
    ELSE <<SubSeq(s, 1, at)>> \o SplitOn(SubSeq(s, at + Len(sep) + 1, Len(s)), sep)

\* [text_content[i:i+chunk_size] for i in range(0, len(text_content), chunk_size)]
Chunks(text_content) ==
    [k \in 1..((Len(text_content) + chunk_size - 1) \div chunk_size) |->
        Slice(text_content, (k - 1) * chunk_size, k * chunk_size)]

\* A paragraph followed by a blank line.
ParagraphLineBlank(paragraph) ==
    IF Strip(paragraph) # <<>> THEN paragraph \o <<"\n", "\n">> ELSE <<>>

\* if paragraph.text.strip(): text_content += paragraph.text + "\n"
ParagraphLine(paragraph) ==
    IF Strip(paragraph) # <<>> THEN paragraph \o <<"\n">> ELSE <<>>

\* The loop over doc.paragraphs.
RECURSIVE ParagraphsText(_, _)
ParagraphsText(paragraphs, i) ==
    IF i > Len(paragraphs) THEN <<>>
    ELSE ParagraphLine(paragraphs[i]) \o ParagraphsText(paragraphs, i + 1)

\* FileService._extract_text_from_file: the text, or the HTTPException.
extract_text_from_file(content, content_type) ==
    IF content_type \in {"text/plain", "text/markdown"}
    THEN IF content.utf8
         THEN [raised |-> FALSE, status |-> 200, text |-> content.text]
         ELSE [raised |-> TRUE, status |-> 400, text |-> <<>>]
    ELSE IF content_type \in WordTypes
    THEN IF content.opens
         THEN [raised |-> FALSE, status |-> 200,
               text |-> Strip(ParagraphsText(content.paragraphs, 1))]
         ELSE [raised |-> TRUE, status |-> 400, text |-> <<>>]
    ELSE [raised |-> TRUE, status |-> 400, text |-> <<>>]

\* The candidates split on the form feed before the triple newline.
PageTextsFormFeedFirst(text_content) ==
    IF Find(text_content, FormFeed) # -1 THEN SplitOn(text_content, FormFeed)
    ELSE IF Find(text_content, TripleNewline) # -1 THEN SplitOn(text_content, TripleNewline)
    ELSE IF Find(text_content, DoubleNewline) # -1 THEN SplitOn(text_content, DoubleNewline)
    ELSE Chunks(text_content)

\* Lines 616-628: page_texts, the page candidates of a text.
PageTexts(text_content) ==
    IF Find(text_content, TripleNewline) # -1 THEN SplitOn(text_content, TripleNewline)
    ELSE IF Find(text_content, FormFeed) # -1 THEN SplitOn(text_content, FormFeed)
    ELSE IF Find(text_content, DoubleNewline) # -1 THEN SplitOn(text_content, DoubleNewline)
    ELSE Chunks(text_content)

\* Lines 632-641: the candidates kept, stripped.
KeptPages(page_texts) ==
    LET cleaned == [i \in 1..Len(page_texts) |-> Strip(page_texts[i])] IN
    [i \in 1..Len(SelectSeq(cleaned, LAMBDA c : c # <<>> /\ Len(c) > 10)) |->
        [text |-> SelectSeq(cleaned, LAMBDA c : c # <<>> /\ Len(c) > 10)[i],
         extraction_method |-> "text_extraction"]]

\* FileService.process_bulk_text_upload(content, filename): the list
\* returned, or the HTTPException raised.
process_bulk_text_upload(file) ==
    LET content_type == content_types(file.extension)
        extracted == extract_text_from_file(file.content, content_type)
    IN
    IF file.size > max_file_size
    THEN [raised |-> TRUE, status |-> 400, pages |-> <<>>]
    ELSE IF content_type = "application/pdf"
    THEN [raised |-> FALSE, status |-> 200,
          pages |-> process_pdf_with_smart_ocr(file.content.doc).valid_pages]
    ELSE IF extracted.raised
    THEN [raised |-> TRUE, status |-> extracted.status, pages |-> <<>>]
    ELSE [raised |-> FALSE, status |-> 200, pages |-> KeptPages(PageTexts(extracted.text))]

(***************************************************************************)
(* services/search_service.py: snippets.                                   *)
(***************************************************************************)
Ellipsis == <<".", ".", ".">>

EnPrefix == <<"[", "E", "N", "]", " ">>

IdPrefix == <<"[", "I", "D", "]", " ">>

\* The values of query_language the code tests for.
En == <<"e", "n">>

Id == <<"i", "d">>

\* _generate_snippet with the window starting at the occurrence itself.
GenerateSnippetFromOccurrence(text, query, max_length) ==
    LET query_pos == Find(Lower(text), Lower(query))
        start_pos == IF query_pos > 0 THEN query_pos ELSE 0
        end_pos == IF start_pos + max_length < Len(text)
                   THEN start_pos + max_length ELSE Len(text)
    IN
    IF Len(text) <= max_length THEN text
    ELSE IF query_pos = -1 THEN Slice(text, 0, max_length) \o Ellipsis
    ELSE (IF start_pos > 0 THEN Ellipsis ELSE <<>>)
         \o Slice(text, start_pos, end_pos)
         \o (IF end_pos < Len(text) THEN Ellipsis ELSE <<>>)

\* SearchService._generate_snippet(text, query, max_length)
generate_snippet(text, query, max_length) ==
    LET query_pos == Find(Lower(text), Lower(query))
        before == IF query_pos - (max_length \div 3) > 0
                  THEN query_pos - (max_length \div 3) ELSE 0
        start_pos == before
        end_pos == IF start_pos + max_length < Len(text)
                   THEN start_pos + max_length ELSE Len(text)
    IN
    IF Len(text) <= max_length THEN text
    ELSE IF query_pos = -1 THEN Slice(text, 0, max_length) \o Ellipsis
    ELSE (IF start_pos > 0 THEN Ellipsis ELSE <<>>)
         \o Slice(text, start_pos, end_pos)
         \o (IF end_pos < Len(text) THEN Ellipsis ELSE <<>>)

english_words ==
    {<<"t", "h", "e">>, <<"a", "n", "d">>, <<"o", "r">>, <<"i", "n">>, <<"o", "n">>,
     <<"a", "t">>, <<"t", "o">>, <<"f", "o", "r">>, <<"o", "f">>,
     <<"w", "i", "t", "h">>, <<"b", "y">>}

indonesian_words ==
    {<<"d", "a", "n">>, <<"a", "t", "a", "u">>, <<"y", "a", "n", "g">>, <<"d", "i">>,
     <<"k", "e">>, <<"d", "a", "r", "i">>, <<"u", "n", "t", "u", "k">>,
     <<"d", "e", "n", "g", "a", "n">>, <<"p", "a", "d", "a">>,
     <<"a", "d", "a", "l", "a", "h">>}

\* The stop-word heuristic of _is_english and _is_indonesian:
\* len(words) > 0 and count / len(words) > 0.2.
StopWordRatioExceeded(text, stop_words) ==
    LET words == Split(Lower(text))
        count == Cardinality({i \in 1..Len(words) : words[i] \in stop_words})
    IN Len(words) > 0 /\ 5 * count > Len(words)

is_english(text) == StopWordRatioExceeded(text, english_words)

is_indonesian(text) == StopWordRatioExceeded(text, indonesian_words)

\* `t and t.strip()` on an optional translation.
HasContent(t) == Truthy(t) /\ Strip(t) # <<>>

\* A choice of snippet text that ignores the translations.
SnippetTextOriginalOnly(original_text, en_translation, id_translation, query, query_language) ==
    [snippet_text |-> original_text, snippet_prefix |-> <<>>]

\* Lines 373-394 of _generate_multilingual_snippet: the text the snippet is
\* cut from, and its prefix.
SnippetText(original_text, en_translation, id_translation, query, query_language) ==
    IF query_language = En \/ (query_language = None /\ is_english(query))
    THEN IF HasContent(en_translation)
         THEN [snippet_text |-> en_translation, snippet_prefix |-> EnPrefix]
         ELSE IF HasContent(id_translation)
         THEN [snippet_text |-> id_translation, snippet_prefix |-> IdPrefix]
         ELSE [snippet_text |-> original_text, snippet_prefix |-> <<>>]
    ELSE IF query_language = Id \/ (query_language = None /\ is_indonesian(query))
    THEN IF HasContent(id_translation)
         THEN [snippet_text |-> id_translation, snippet_prefix |-> IdPrefix]
         ELSE IF HasContent(en_translation)
         THEN [snippet_text |-> en_translation, snippet_prefix |-> EnPrefix]
         ELSE [snippet_text |-> original_text, snippet_prefix |-> <<>>]
    ELSE [snippet_text |-> original_text, snippet_prefix |-> <<>>]

\* SearchService._generate_multilingual_snippet
generate_multilingual_snippet(original_text, en_translation, id_translation, query, query_language, max_length) ==
    LET c == SnippetText(original_text, en_translation, id_translation,
                         query, query_language)
    IN c.snippet_prefix
       \o generate_snippet(c.snippet_text, query, max_length - Len(c.snippet_prefix))

\* The default of the max_length parameter.
default_max_length == 200

(***************************************************************************)
(* services/search_service.py: the vector searches.                        *)
(***************************************************************************)
default_similarity_threshold == 70

default_limit == 10

multilingual_threshold == 60

\* 1 - (p.embedding_vector <=> query_embedding), in hundredths.  The vectors
\* of ProviderVector have length 10, so the cosine of two of them is their
\* dot product over 100.
similarity_score(u, v) == u[1] * v[1] + u[2] * v[2]

\* WHERE p.embedding_vector IS NOT NULL AND 1 - (... <=> ...) >= :threshold
Matches(rows, query_embedding, similarity_threshold) ==
    {p \in rows : /\ p.embedding_vector # NoVector
                  /\ similarity_score(p.embedding_vector, query_embedding)
                         >= similarity_threshold}

\* ORDER BY p.embedding_vector <=> query_embedding: the orders of the rows by
\* ascending distance.  The statement names no second key, so rows at the
\* same distance come in any order, and not the same one in every execution.
RECURSIVE OrderByDistance(_, _)
OrderByDistance(rows, query_embedding) ==
    IF rows = {} THEN {<<>>}
    ELSE UNION {{<<p>> \o rest : rest \in OrderByDistance(rows \ {p}, query_embedding)} :
                p \in {x \in rows :
                          \A y \in rows :
                              similarity_score(x.embedding_vector, query_embedding)
                                  >= similarity_score(y.embedding_vector, query_embedding)}}

\* JOIN books b ON p.book_id = b.id
JoinBooks(rows, bs) == {p \in rows : \E b \in bs : b.id = p.book_id}

\* LIMIT :limit OFFSET :offset
LimitOffset(rows, limit, offset) == Slice(rows, offset, offset + limit)

\* The embedding of a query as the searches obtain it, inside their try.
QueryEmbedding(svc, query, provider_ok) ==
    GenerateEmbedding(svc, query, provider_ok).value

\* A search whose except clause is left out: what generate_embedding raises
\* leaves the search.
SearchRaisesUncaught(emb) == emb.raised

\* `try: ... except Exception: return []` (and `return [], 0`) around the
\* whole body of a search: whether the search raises, given the outcome emb
\* of its generate_embedding call.
SearchRaises(emb) == FALSE

\* SearchService.semantic_search(db, query, limit, similarity_threshold)
semantic_search(query, limit, similarity_threshold, provider_ok) ==
    LET lim == OrDefault(limit, default_limit)
        threshold == OrDefault(similarity_threshold, default_similarity_threshold)
        query_embedding == QueryEmbedding(embedding_service, query, provider_ok)
        found == JoinBooks(Matches(pages, query_embedding, threshold), books)
    IN
    /\ embedding_service' = Initialize(embedding_service)
    /\ \E rows \in (IF query_embedding = NoVector THEN {<<>>}
                    ELSE OrderByDistance(found, query_embedding)) :
           response' =
               [op |-> "semantic_search", query |-> query, limit |-> limit,
                similarity_threshold |-> similarity_threshold,
                query_embedding |-> query_embedding,
                raised |-> SearchRaises(GenerateEmbedding(embedding_service, query, provider_ok)),
                results |->
                    [i \in 1..Len(LimitOffset(rows, lim, 0)) |->
                        [page_id |-> rows[i].id,
                         similarity_score |->
                             similarity_score(rows[i].embedding_vector, query_embedding),
                         snippet |-> generate_snippet(rows[i].original_text, query,
                                                      default_max_length)]]]
    /\ UNCHANGED <<books, pages, next_book_id, next_page_id, inflight>>

\* SearchService.multilingual_search(db, query, query_language, limit, offset,
\* similarity_threshold)
multilingual_search(query, query_language, limit, offset, similarity_threshold, provider_ok) ==
    LET lim == OrDefault(limit, default_limit)
        off == OrDefault(offset, 0)
        threshold == OrDefault(similarity_threshold, multilingual_threshold)
        query_embedding == QueryEmbedding(embedding_service, query, provider_ok)
        total_count == Cardinality(Matches(pages, query_embedding, threshold))
        found == JoinBooks(Matches(pages, query_embedding, threshold), books)
    IN
    /\ embedding_service' = Initialize(embedding_service)
    /\ \E ordered \in (IF query_embedding = NoVector THEN {<<>>}
                       ELSE OrderByDistance(found, query_embedding)) :
           LET rows == LimitOffset(ordered, lim, off) IN
           response' =
               [op |-> "multilingual_search", query |-> query,
                query_language |-> query_language, limit |-> limit,
                offset |-> offset, similarity_threshold |-> similarity_threshold,
                query_embedding |-> query_embedding,
                raised |-> SearchRaises(GenerateEmbedding(embedding_service, query, provider_ok)),
                results |->
                    [i \in 1..Len(rows) |->
                        [page_id |-> rows[i].id,
                         similarity_score |->
                             similarity_score(rows[i].embedding_vector, query_embedding),
                         snippet |-> generate_multilingual_snippet(
                                         rows[i].original_text, rows[i].en_translation,
                                         rows[i].id_translation, query, query_language,
                                         default_max_length)]],
                total_count |-> IF query_embedding = NoVector THEN 0 ELSE total_count]
    /\ UNCHANGED <<books, pages, next_book_id, next_page_id, inflight>>

\* Postgres LIKE of a text against a pattern, letters compared without
\* case: % stands for any run of characters, _ for any one character, and a
\* backslash makes the character after it literal.
RECURSIVE LikeMatch(_, _)
LikeMatch(s, pattern) ==
    IF pattern = <<>> THEN s = <<>>
    ELSE IF Head(pattern) = "%"
    THEN LikeMatch(s, Tail(pattern)) \/ (s # <<>> /\ LikeMatch(Tail(s), pattern))
    ELSE IF Head(pattern) = "_"
    THEN s # <<>> /\ LikeMatch(Tail(s), Tail(pattern))
    ELSE IF Head(pattern) = "\\" /\ Len(pattern) >= 2
    THEN s # <<>> /\ LowerChar(Head(s)) = LowerChar(pattern[2])
         /\ LikeMatch(Tail(s), Tail(Tail(pattern)))
    ELSE s # <<>> /\ LowerChar(Head(s)) = LowerChar(Head(pattern))
         /\ LikeMatch(Tail(s), Tail(pattern))

\* Page.original_text.ilike(f"%{query}%")
ILike(text, query) == LikeMatch(text, <<"%">> \o query \o <<"%">>)

\* The rows of a query without ORDER BY: the database returns them in an
\* order of its choice.
RECURSIVE AnyOrder(_)
AnyOrder(rows) ==
    IF rows = {} THEN {<<>>}
    ELSE UNION {{<<p>> \o rest : rest \in AnyOrder(rows \ {p})} : p \in rows}

\* The similarity_score of a text_search result (0.5), in hundredths.
text_search_score == 50

\* SearchService.text_search(db, query, limit)
text_search(query, limit) ==
    LET lim == OrDefault(limit, default_limit)
        found == JoinBooks({p \in pages : ILike(p.original_text, query)}, books)
    IN
    /\ \E ordered \in AnyOrder(found) :
           LET rows == LimitOffset(ordered, lim, 0) IN
           response' =
               [op |-> "text_search", query |-> query, limit |-> limit,
                results |->
                    [i \in 1..Len(rows) |->
                        [page_id |-> rows[i].id,
                         similarity_score |-> text_search_score,
                         snippet |-> generate_snippet(rows[i].original_text, query,
                                                      default_max_length)]]]
    /\ UNCHANGED <<books, pages, next_book_id, next_page_id, embedding_service, inflight>>

\* The max_length get_similar_pages passes to _generate_snippet.
similar_snippet_length == 150

\* WHERE p.embedding_vector IS NOT NULL, without the test on p.id.
OthersWithReference(rows, page_id) == {p \in rows : p.embedding_vector # NoVector}

\* WHERE p.embedding_vector IS NOT NULL AND p.id != :page_id
Others(rows, page_id) ==
    {p \in rows : p.embedding_vector # NoVector /\ p.id # page_id}

\* `not ref_page.embedding_vector`: NULL is false.  A stored vector reaches
\* the test as the array type of the pgvector package, which is not part of
\* this source: the test answers that the vector is there, or it raises and
\* the except clause of get_similar_pages returns [].
TruthTestOutcomes(v) == IF v = NoVector THEN {"absent"} ELSE {"present", "raises"}

\* LIMIT :limit, where a NULL limit is no limit.
LimitOrAll(rows, limit) ==
    IF limit = Absent THEN rows ELSE LimitOffset(rows, limit.value, 0)

\* SearchService.get_similar_pages(db, page_id, limit)
get_similar_pages(page_id, limit) ==
    LET ref_page == {p \in pages : p.id = page_id}
        ref_embedding == IF ref_page = {} THEN NoVector
                         ELSE (CHOOSE p \in ref_page : TRUE).embedding_vector
        found == JoinBooks(Others(pages, page_id), books)
    IN
    /\ \E truth \in TruthTestOutcomes(ref_embedding) :
       \E ordered \in (IF truth = "present" THEN OrderByDistance(found, ref_embedding)
                       ELSE {<<>>}) :
           LET rows == LimitOrAll(ordered, limit) IN
           response' =
               [op |-> "get_similar_pages", page_id |-> page_id, limit |-> limit,
                raised |-> (truth = "raises"),
                results |->
                    [i \in 1..Len(rows) |->
                        [page_id |-> rows[i].id,
                         similarity_score |->
                             similarity_score(rows[i].embedding_vector, ref_embedding),
                         snippet |-> generate_snippet(rows[i].original_text, <<>>,
                                                      similar_snippet_length)]]]
    /\ UNCHANGED <<books, pages, next_book_id, next_page_id, embedding_service, inflight>>

\* The fields of schemas.search.SearchRequest.
SearchRequestFields == {"query", "limit", "similarity_threshold", "query_language"}

\* routers/search.py, POST /multilingual: the handler reads request.offset to
\* build the arguments of the service call; SearchRequest has no such field,
\* and the AttributeError leaves the handler as a 500 before the call.
multilingual_search_endpoint(query, limit, similarity_threshold) ==
    /\ "offset" \notin SearchRequestFields
    /\ response' = [op |-> "POST /multilingual", query |-> query, limit |-> limit,
                    similarity_threshold |-> similarity_threshold, status |-> 500]
    /\ UNCHANGED <<books, pages, next_book_id, next_page_id, embedding_service, inflight>>

(***************************************************************************)
(* The store under all its handlers; requests of two clients interleave.   *)
(* An upload carries one file here; SpecUpload sends the longer requests.  *)
(***************************************************************************)
BookIds == 1..MaxBooks

PageNumbers == 1..MaxPageNumber

Next ==
    \/ \E cover \in Covers : create_book(cover)
    \/ \E b \in BookIds : upload_book_cover(b)
    \/ \E b \in BookIds : delete_book_cover(b)
    \/ \E b \in BookIds : delete_book(b)
    \/ \E c \in Clients, b \in BookIds, n \in PageNumbers : create_page_check(c, b, n)
    \/ \E c \in Clients, t \in Texts, ok \in BOOLEAN : create_page_commit(c, t, ok)
    \/ \E b \in BookIds, n \in PageNumbers : update_page(b, n)
    \/ \E b \in BookIds, n \in PageNumbers : delete_page(b, n)
    \/ \E b \in BookIds, ok \in BOOLEAN :
           \E files \in FileLists(1) : upload_files_bulk(b, files, ok)

Spec == Init /\ [][Next]_vars

(***************************************************************************)
(* Uploads of up to MaxFiles files into books that one client fills.       *)
(***************************************************************************)
NextUpload ==
    \/ \E cover \in Covers : create_book(cover)
    \/ \E b \in BookIds, n \in PageNumbers : create_page_check("c1", b, n)
    \/ \E t \in Texts, ok \in BOOLEAN : create_page_commit("c1", t, ok)
    \/ \E b \in BookIds, n \in PageNumbers : delete_page(b, n)
    \/ \E b \in BookIds, n \in 1..MaxFiles, ok \in BOOLEAN :
           \E files \in FileLists(n) : upload_files_bulk(b, files, ok)

SpecUpload == Init /\ [][NextUpload]_vars

(***************************************************************************)
(* The searches over a corpus that does not change.                        *)
(***************************************************************************)
\* The texts of the corpus pages; the last one gets no embedding.
CorpusTexts == <<<<"a">>, <<"b">>, <<"c">>, <<" ">>>>

\* Which text each page holds.  The pages are interchangeable to a search,
\* so the pages are numbered in the order of their texts; at most MaxTies
\* pages hold the same text.
Corpora ==
    {k \in [1..CorpusSize -> 1..Len(CorpusTexts)] :
        /\ \A i \in 1..(CorpusSize - 1) : k[i] <= k[i + 1]
        /\ \A t \in 1..Len(CorpusTexts) :
               Cardinality({i \in 1..CorpusSize : k[i] = t}) <= MaxTies}

\* The vector create_page stored with a page of this text.
StoredVector(text) ==
    IF Truthy(text)
    THEN GenerateEmbedding(CHOOSE d \in Deployments : InitializeSucceeds(d), text, TRUE).value
    ELSE NoVector

\* The deployments the searches run under: those of the store, and one whose
\* model answers with vectors of another length than the dimension.
SearchDeployments ==
    Deployments \cup
    {[provider |-> "openai", api_key |-> TRUE, initialized |-> FALSE,
      model |-> "text-embedding-ada-002", dimension |-> 768, native_dimension |-> 1536]}

InitSearch ==
    /\ books = {[id |-> 1, cover_image_url |-> None]}
    /\ \E k \in Corpora :
           pages = {NewPage(i, 1, i, CorpusTexts[k[i]], StoredVector(CorpusTexts[k[i]]), None) :
                    i \in 1..CorpusSize}
    /\ next_book_id = 2
    /\ next_page_id = CorpusSize + 1
    /\ embedding_service \in SearchDeployments
    /\ inflight = [c \in Clients |-> Idle]
    /\ response = NoResponse
    /\ search_log = <<>>

SearchQueries == {<<"b">>, <<"c">>}

\* A query that is empty after cleaning.
BlankQueries == {<<" ">>}

\* A query that holds a character LIKE reads as a wildcard.
WildcardQueries == {<<"B", "%">>}

Limits == {Absent, Given(0), Given(2)}

Offsets == {Absent, Given(1)}

Thresholds == {Absent, Given(0), Given(90)}

NextSearch ==
    \/ \E q \in SearchQueries, l \in Limits, t \in Thresholds, ok \in BOOLEAN :
           semantic_search(q, l, t, ok) /\ UNCHANGED search_log
    \/ \E q \in BlankQueries, l \in Limits :
           semantic_search(q, l, Absent, TRUE) /\ UNCHANGED search_log
    \/ \E q \in BlankQueries, l \in Limits :
           multilingual_search(q, None, l, Absent, Absent, TRUE) /\ UNCHANGED search_log
    \/ \E q \in SearchQueries, l \in Limits, o \in Offsets, t \in Thresholds,
          ok \in BOOLEAN :
           multilingual_search(q, None, l, o, t, ok) /\ UNCHANGED search_log
    \/ \E q \in SearchQueries, l \in Limits, t \in Thresholds :
           multilingual_search_endpoint(q, l, t) /\ UNCHANGED search_log
    \/ \E q \in SearchQueries \cup WildcardQueries, l \in Limits :
           text_search(q, l) /\ UNCHANGED search_log

SpecSearch == InitSearch /\ [][NextSearch]_vars

\* The page ids a caller asks similar pages for: those of the corpus and one
\* that no page has.
SimilarPageIds == 1..(CorpusSize + 1)

NextSimilar ==
    \E id \in SimilarPageIds, l \in Limits :
        get_similar_pages(id, l) /\ UNCHANGED search_log

SpecSimilar == InitSearch /\ [][NextSimilar]_vars

\* A caller that pages through the results of one query: (limit, offset).
PaginationRequests == {<<5, 0>>, <<5, 5>>, <<10, 0>>}

NextPagination ==
    \E r \in PaginationRequests :
        /\ Len(search_log) < MaxSearches
        /\ multilingual_search(<<"b">>, None, Given(r[1]), Given(r[2]), Given(20), TRUE)
        /\ search_log' = Append(search_log, response')

SpecPagination == InitSearch /\ [][NextPagination]_vars

(***************************************************************************)
(* _generate_multilingual_snippet on its own.                              *)
(***************************************************************************)
OriginalTexts == {<<"x">>, <<"x", "y", "z", "x", "y", "z">>}

EnTranslations == {None, <<>>, <<" ">>, <<"g", "o", " ", "t", "o">>}

IdTranslations == {None, <<>>, <<" ">>, <<"k", "e", " ", "d", "i">>}

SnippetQueries == {<<"T", "o">>, <<"d", "i">>, <<"x", "y">>, <<"t", "o", " ", "d", "i">>}

Languages == {None, En, Id, <<"a", "r">>}

MaxLengths == {8, default_max_length}

CallGenerateMultilingualSnippet(original_text, en_translation, id_translation, query, query_language, max_length) ==
    /\ response' =
           [op |-> "_generate_multilingual_snippet", original_text |-> original_text,
            en_translation |-> en_translation, id_translation |-> id_translation,
            query |-> query, query_language |-> query_language,
            max_length |-> max_length,
            snippet |-> generate_multilingual_snippet(
                            original_text, en_translation, id_translation,
                            query, query_language, max_length)]
    /\ UNCHANGED <<books, pages, next_book_id, next_page_id, embedding_service,
                   inflight, search_log>>

NextSnippet ==
    \E o \in OriginalTexts, en \in EnTranslations, id \in IdTranslations,
       q \in SnippetQueries, lang \in Languages, m \in MaxLengths :
        CallGenerateMultilingualSnippet(o, en, id, q, lang, m)

SpecSnippet == Init /\ [][NextSnippet]_vars

(***************************************************************************)
(* The translation handlers over a book of two pages, as create_page       *)
(* stores them: one with its vector, one without.                          *)
(***************************************************************************)
InitTranslation ==
    /\ books = {[id |-> 1, cover_image_url |-> None]}
    /\ pages = {NewPage(1, 1, 1, <<"a">>, StoredVector(<<"a">>), None),
                NewPage(2, 1, 2, <<"b">>, NoVector, None)}
    /\ next_book_id = 2
    /\ next_page_id = 3
    /\ embedding_service \in Deployments
    /\ inflight = [c \in Clients |-> Idle]
    /\ response = NoResponse
    /\ search_log = <<>>

\* The pages a request may name: the two stored ones and one that is not.
TranslationPageIds == {1, 2, 3}

TranslationOutcomes == {TranslationRaised, TranslationText(<<"t">>)}

NextTranslation ==
    \/ \E n \in TranslationPageIds, en \in Translations, id \in Translations :
           update_page_translations(1, n, en, id)
    \/ \E id \in TranslationPageIds, lang \in {"en", "id"}, use_image \in BOOLEAN,
          translation \in TranslationOutcomes :
           translate_page(id, lang, use_image, translation)

SpecTranslation == InitTranslation /\ [][NextTranslation]_vars

(***************************************************************************)
(* _generate_snippet on its own.                                           *)
(***************************************************************************)
\* Texts of up to 26 characters: a run of x, then nothing or the word "To"
\* in either case, then a run of d.
PlainSnippetTexts ==
    {[i \in 1..a |-> "x"] \o w \o [i \in 1..b |-> "d"] :
        a \in 0..12, b \in 0..12, w \in {<<>>, <<"T", "o">>, <<"t", "O">>}}

PlainSnippetQueries == {<<>>, <<"t", "o">>, <<"T", "O">>, <<"y">>}

PlainMaxLengths == {6, 10}

\* The function keeps no state between calls: a behaviour makes one call.
CallGenerateSnippet(text, query, max_length) ==
    /\ response = NoResponse
    /\ response' = [op |-> "_generate_snippet", text |-> text, query |-> query,
                    max_length |-> max_length,
                    snippet |-> generate_snippet(text, query, max_length)]
    /\ UNCHANGED <<books, pages, next_book_id, next_page_id, embedding_service,
                   inflight, search_log>>

NextPlainSnippet ==
    \E t \in PlainSnippetTexts, q \in PlainSnippetQueries, m \in PlainMaxLengths :
        CallGenerateSnippet(t, q, m)

SpecPlainSnippet == Init /\ [][NextPlainSnippet]_vars

(***************************************************************************)
(* The embedding service on its own, and the pages create_page stores with *)
(* it, under deployments of either provider.                               *)
(***************************************************************************)
EmbeddingDeployments ==
    Deployments \cup
    {[provider |-> "openai", api_key |-> TRUE, initialized |-> FALSE,
      model |-> "text-embedding-3-large", dimension |-> 3072, native_dimension |-> 3072],
     [provider |-> "openai", api_key |-> TRUE, initialized |-> FALSE,
      model |-> "text-embedding-ada-002", dimension |-> 768, native_dimension |-> 1536],
     [provider |-> "openai", api_key |-> TRUE, initialized |-> FALSE,
      model |-> "text-embedding-ada-002", dimension |-> 3072, native_dimension |-> 1536],
     [provider |-> "gemini", api_key |-> TRUE, initialized |-> FALSE,
      model |-> "models/gemini-embedding-001", dimension |-> 1536, native_dimension |-> 3072],
     [provider |-> "gemini", api_key |-> TRUE, initialized |-> FALSE,
      model |-> "models/embedding-001", dimension |-> 1536, native_dimension |-> 768],
     [provider |-> "gemini", api_key |-> TRUE, initialized |-> FALSE,
      model |-> "models/gemini-embedding-001", dimension |-> 768, native_dimension |-> 3072],
     [provider |-> "cohere", api_key |-> TRUE, initialized |-> FALSE,
      model |-> "text-embedding-3-large", dimension |-> 1536, native_dimension |-> 1536]}

InitEmbedding ==
    /\ books = {}
    /\ pages = {}
    /\ next_book_id = 1
    /\ next_page_id = 1
    /\ embedding_service \in EmbeddingDeployments
    /\ inflight = [c \in Clients |-> Idle]
    /\ response = NoResponse
    /\ search_log = <<>>

EmbeddingTexts == {<<>>, <<" ">>, <<"a">>, <<"b">>}

\* A call of embedding_service.generate_embedding(text).  The response keeps
\* the service as the call found it, the provider's answer, and the
\* service's dimension when the call is over.
CallGenerateEmbedding(text, provider_ok) ==
    LET emb == GenerateEmbedding(embedding_service, text, provider_ok)
        self == Initialize(embedding_service)
    IN
    /\ embedding_service' = self
    /\ response' =
           [op |-> "generate_embedding", text |-> text,
            service |-> embedding_service,
            raised |-> emb.raised, value |-> emb.value, called |-> emb.called,
            answered |-> IF emb.called /\ provider_ok
                         THEN ProviderResponse(self, ReplaceNewlines(Strip(text)))
                         ELSE NoVector,
            dimension |-> self.dimension]
    /\ UNCHANGED <<books, pages, next_book_id, next_page_id, inflight, search_log>>

NextEmbedding ==
    \/ \E t \in EmbeddingTexts, ok \in BOOLEAN : CallGenerateEmbedding(t, ok)
    \/ create_book(None)
    \/ \E b \in BookIds, n \in PageNumbers : create_page_check("c1", b, n)
    \/ \E t \in Texts, ok \in BOOLEAN : create_page_commit("c1", t, ok)

SpecEmbedding == InitEmbedding /\ [][NextEmbedding]_vars

(***************************************************************************)
(* The embedding service called with batches of texts and with single      *)
(* texts.                                                                  *)
(***************************************************************************)
MaxBatch == 2

\* The batches: up to MaxBatch texts, each with whether the provider can
\* embed it.
Batches == UNION {[1..n -> EmbeddingTexts] : n \in 1..MaxBatch}

CallGenerateEmbeddingsBatch(texts, provider_ok) ==
    LET emb == GenerateEmbeddingsBatch(embedding_service, texts, provider_ok) IN
    /\ embedding_service' = Initialize(embedding_service)
    /\ response' =
           [op |-> "generate_embeddings_batch", texts |-> texts,
            provider_ok |-> provider_ok, service |-> embedding_service,
            raised |-> emb.raised, value |-> emb.value]
    /\ UNCHANGED <<books, pages, next_book_id, next_page_id, inflight, search_log>>

NextBatch ==
    \/ \E texts \in Batches :
           \E provider_ok \in [1..Len(texts) -> BOOLEAN] :
               CallGenerateEmbeddingsBatch(texts, provider_ok)
    \/ \E t \in EmbeddingTexts, ok \in BOOLEAN : CallGenerateEmbedding(t, ok)

SpecBatch == InitEmbedding /\ [][NextBatch]_vars

(***************************************************************************)
(* PDF extraction and OCR on their own.                                    *)
(***************************************************************************)
\* n times the character ch.
Line(n, ch) == [i \in 1..n |-> ch]

\* Text layers: none; one line of 51 and of 50 letters; three lines of 17;
\* two halves of 25 around a space; two lines of 11 and four of 10; six
\* lines of 10.
TextLayers ==
    {<<>>,
     Line(51, "x"),
     Line(50, "x"),
     Line(17, "x") \o <<"\n">> \o Line(17, "x") \o <<"\n">> \o Line(17, "x"),
     Line(25, "x") \o <<" ">> \o Line(25, "x"),
     Line(11, "x") \o <<"\n">> \o Line(11, "x") \o <<"\n">> \o Line(10, "x") \o <<"\n">>
         \o Line(10, "x") \o <<"\n">> \o Line(10, "x") \o <<"\n">> \o Line(10, "x"),
     Line(10, "x") \o <<"\n">> \o Line(10, "x") \o <<"\n">> \o Line(10, "x") \o <<"\n">>
         \o Line(10, "x") \o <<"\n">> \o Line(10, "x") \o <<"\n">> \o Line(10, "x")}

\* What a configuration can do on an image: raise; return a blank text, ten
\* Arabic letters, four pairs of letters with spaces between (eleven
\* characters), 101 letters, or twelve Latin letters.
OcrOutcomes ==
    {OcrRaised,
     OcrText(<<"\n">>),
     OcrText(Line(10, "beh") \o <<"\n">>),
     OcrText(<<"beh", "beh", " ", "beh", "beh", " ", "beh", "beh", " ", "beh", "beh", "\n">>),
     OcrText(Line(101, "beh")),
     OcrText(Line(12, "x"))}

PdfPage(text, ocr) == [raises |-> FALSE, text |-> text, raster_ok |-> TRUE, ocr |-> ocr]

\* The pages of the documents of one page.
PdfPages ==
    {PdfPage(text, ocr) : text \in TextLayers, ocr \in [1..Len(smart_ocr_configs) -> OcrOutcomes]}

\* The pages of the documents of two pages.
SmallPdfPages ==
    {PdfPage(Line(51, "x"), [i \in 1..3 |-> OcrRaised]),
     PdfPage(<<>>, [i \in 1..3 |-> OcrText(Line(101, "beh"))]),
     PdfPage(<<>>, [i \in 1..3 |-> OcrRaised]),
     [PdfPage(<<>>, [i \in 1..3 |-> OcrText(Line(101, "beh"))]) EXCEPT !.raster_ok = FALSE],
     [PdfPage(Line(51, "x"), [i \in 1..3 |-> OcrRaised]) EXCEPT !.raises = TRUE]}

\* The functions keep no state between calls: a behaviour makes one call.
CallProcessPdfWithSmartOcr(doc) ==
    LET r == process_pdf_with_smart_ocr(doc) IN
    /\ response = NoResponse
    /\ response' = [op |-> "_process_pdf_with_smart_ocr", document |-> doc,
                    valid_pages |-> r.valid_pages, attempts |-> r.attempts]
    /\ UNCHANGED <<books, pages, next_book_id, next_page_id, embedding_service,
                   inflight, search_log>>

CallExtractTextWithOcr(outcomes) ==
    LET r == extract_text_with_ocr(outcomes) IN
    /\ response = NoResponse
    /\ response' = [op |-> "_extract_text_with_ocr", text |-> r.text,
                    attempts |-> r.attempts]
    /\ UNCHANGED <<books, pages, next_book_id, next_page_id, embedding_service,
                   inflight, search_log>>

NextPdf ==
    \/ \E page \in PdfPages : CallProcessPdfWithSmartOcr(<<page>>)
    \/ \E first, second \in SmallPdfPages : CallProcessPdfWithSmartOcr(<<first, second>>)
    \/ \E outcomes \in [1..Len(ocr_configs) -> OcrOutcomes] : CallExtractTextWithOcr(outcomes)

SpecPdf == Init /\ [][NextPdf]_vars

(***************************************************************************)
(* process_bulk_text_upload on its own.                                    *)
(***************************************************************************)
\* The pieces a text is put together from: nothing; two letters; ten
\* letters; eleven letters; eleven letters between spaces.
Pieces ==
    {<<>>, <<"a", "b">>, Line(10, "c"), Line(11, "d"),
     <<" ">> \o Line(11, "e") \o <<" ">>}

\* What stands between the pieces: one to four newlines, or a form feed.
Separators == {<<"\n">>, DoubleNewline, TripleNewline, <<"\n", "\n", "\n", "\n">>, FormFeed}

\* Texts without a blank line or form feed, around the chunk size.
LongTexts ==
    {Line(chunk_size, "a"), Line(chunk_size + 1, "a"),
     Line(chunk_size - 5, "a") \o <<" ">> \o Line(chunk_size, "b") \o <<"\n">> \o Line(15, "c"),
     Line(chunk_size, "a") \o Line(10, "b")}

PlainTexts ==
    {a \o s1 \o b \o s2 \o c : a \in Pieces, b \in Pieces, c \in {<<>>, Line(11, "d")},
                               s1 \in Separators, s2 \in Separators}
        \cup LongTexts

TextFile(extension, text) ==
    [extension |-> extension, size |-> Len(text), content |-> [utf8 |-> TRUE, text |-> text]]

TextFiles ==
    {TextFile(e, t) : e \in {"txt"}, t \in PlainTexts}
        \cup {TextFile(e, t) : e \in {"md", "rst"}, t \in LongTexts}
        \cup {[TextFile("txt", Line(11, "d")) EXCEPT !.content.utf8 = FALSE],
              [TextFile("txt", Line(11, "d")) EXCEPT !.size = max_file_size + 1]}

\* The paragraphs of a Word document: empty, blank, of 11, 600 and 1001
\* letters.
Paragraphs == {<<>>, <<" ">>, Line(11, "d"), Line(600, "a"), Line(chunk_size + 1, "b")}

WordFile(extension, opens, paragraphs) ==
    [extension |-> extension, size |-> 1, content |-> [opens |-> opens, paragraphs |-> paragraphs]]

WordFiles ==
    {WordFile(e, o, <<p, q>>) : e \in {"docx", "doc"}, o \in BOOLEAN,
                                p \in Paragraphs, q \in Paragraphs}
        \cup {WordFile("docx", TRUE, <<>>)}

PdfFiles ==
    {[extension |-> "pdf", size |-> 1, content |-> [doc |-> <<page>>]] : page \in SmallPdfPages}

CallProcessBulkTextUpload(file) ==
    LET r == process_bulk_text_upload(file) IN
    /\ response = NoResponse
    /\ response' = [op |-> "process_bulk_text_upload", file |-> file,
                    raised |-> r.raised, status |-> r.status, pages |-> r.pages]
    /\ UNCHANGED <<books, pages, next_book_id, next_page_id, embedding_service,
                   inflight, search_log>>

NextText ==
    \E file \in TextFiles \cup WordFiles \cup PdfFiles : CallProcessBulkTextUpload(file)

SpecText == Init /\ [][NextText]_vars

(***************************************************************************)
(* Claims about the store.                                                 *)
(***************************************************************************)
\* C1: in every reachable state no two stored pages of one book have the
\* same page_number, and a create_page request whose page_number the book
\* already holds is rejected (status 400 or 500) and stores nothing.
C1_PageNumbersUnique ==
    /\ [](\A p, q \in pages :
              (p.book_id = q.book_id /\ p.page_number = q.page_number) => p = q)
    /\ [][(response'.op = "create_page"
            /\ \E p \in pages : /\ p.book_id = response'.book_id
                                /\ p.page_number = response'.page_number)
           => (response'.status \in {400, 500} /\ pages' = pages)]_vars

\* C1 witness: a create_page request for a page number its book holds has
\* been answered with a rejection.
C1_DuplicateRejected ==
    /\ response.op = "create_page"
    /\ response.status \in {400, 500}
    /\ \E p \in pages : /\ p.book_id = response.book_id
                        /\ p.page_number = response.page_number

\* C5: a create_page or upload_files_bulk call leaves a non-empty cover as
\* it is; when such a call changes a cover, the cover was empty and becomes
\* the page image of a page the call created.
C5_CoverFirstWriteWins ==
    [][response'.op \in {"create_page", "upload_files_bulk"}
       => \A b \in books : \A b2 \in books' :
              b2.id = b.id =>
                  /\ Truthy(b.cover_image_url)
                         => b2.cover_image_url = b.cover_image_url
                  /\ b2.cover_image_url # b.cover_image_url
                         => \E p \in pages' \ pages :
                                /\ p.book_id = b.id
                                /\ Truthy(p.page_image_url)
                                /\ p.page_image_url = b2.cover_image_url]_vars

\* C5 witness: create_page has stored page 1 of a book that has a cover.
C5_FirstPageStoredUnderCover ==
    /\ response.op = "create_page"
    /\ response.status = 200
    /\ response.page_number = 1
    /\ \E b \in books : b.id = response.book_id /\ Truthy(b.cover_image_url)

\* C14: after delete_book(b) succeeds no stored page has book_id b, and in
\* every reachable state each stored page belongs to a stored book.
C14_DeleteBookCascades ==
    [][/\ \A p \in pages' : \E b \in books' : b.id = p.book_id
       /\ (response'.op = "delete_book" /\ response'.status = 200) =>
              \A d \in books \ books' : \A p \in pages' : p.book_id # d.id]_vars

\* C14, its case: delete_book has deleted a book together with its pages
\* while a create_page request for that book was between its two steps.
C14_BookDeletedWithPages ==
    /\ response.op = "delete_book"
    /\ response.status = 200
    /\ response.pages_deleted > 0
    /\ \E c \in Clients : inflight[c] # Idle /\ BookRow(inflight[c].book_id) = {}

\* C13: update_page on a stored page sets its original_text and leaves the
\* page with the embedding of the text it now holds, or with no vector: no
\* stored page keeps a vector computed from another text than its own.
C13_UpdatePageReEmbeds ==
    [][(response'.op = "update_page" /\ response'.status # 404) =>
           /\ response'.status = 200
           /\ \A p \in pages' :
                  p.embedding_vector # NoVector =>
                      p.embedding_vector
                          = GenerateEmbedding(embedding_service', p.original_text, TRUE).value]_vars

(***************************************************************************)
(* Claims about upload_files_bulk.                                         *)
(***************************************************************************)
\* A file upload_files_bulk can process by itself: its declared type is in
\* the allow-list and extraction returns its pages.
Processable(file) ==
    file.content_type \in allowed_types /\ ~file.extraction.raised

\* The pages of the processable files before position i of a request.
RECURSIVE PagesBefore(_, _)
PagesBefore(files, i) ==
    IF i <= 1 THEN 0
    ELSE PagesBefore(files, i - 1)
         + (IF Processable(files[i - 1]) THEN Len(files[i - 1].extraction.pages) ELSE 0)

\* C2: the response of upload_files_bulk on an existing book has one entry
\* per file, in input order; a file of a type outside the allow-list has an
\* error entry, and every processable file has a success entry and its pages
\* stored, unless the embedding call failed for that file itself.
C2_OneEntryPerFile ==
    (response.op = "upload_files_bulk" /\ response.status = 200) =>
        LET files == response.files
            results == response.results
        IN
        /\ Len(results) = Len(files)
        /\ \A i \in 1..Len(files) :
               /\ results[i].filename = files[i].filename
               /\ files[i].content_type \notin allowed_types
                      => results[i].status = "error"
               /\ Processable(files[i])
                      => \/ results[i].status = "success"
                         \/ results[i].message = "embedding"

C4_SequentialPageNumbers ==
    [][(response'.op = "upload_files_bulk" /\ response'.status = 200
        /\ \A i \in 1..Len(response'.results) :
               response'.results[i].status = "error"
                   => response'.results[i].message # "embedding") =>
           LET files == response'.files
               own == {p.page_number : p \in {q \in pages : q.book_id = response'.book_id}}
               m == IF own = {} THEN 0 ELSE CHOOSE x \in own : \A y \in own : y <= x
           IN
           \A i \in 1..Len(files) :
               Processable(files[i]) =>
                   \A j \in 1..Len(files[i].extraction.pages) :
                       \E p \in pages' \ pages :
                           /\ p.book_id = response'.book_id
                           /\ p.page_number = m + PagesBefore(files, i) + j
                           /\ p.original_text = files[i].extraction.pages[j]]_vars

\* C12: whatever the embedding service does for the pages of a file (the
\* provider call fails, the vector is refused, initialization raises),
\* upload_files_bulk reports a processable file as a success and stores
\* every page the file yields, a page whose embedding failed with a null
\* vector.
C12_PagesStoredWithoutVector ==
    [][(response'.op = "upload_files_bulk" /\ response'.status = 200) =>
           \A i \in 1..Len(response'.files) :
               Processable(response'.files[i]) =>
                   /\ response'.results[i].status = "success"
                   /\ \A j \in 1..Len(response'.files[i].extraction.pages) :
                          \E p \in pages' \ pages :
                              /\ p.book_id = response'.book_id
                              /\ p.original_text = response'.files[i].extraction.pages[j]
                              /\ \/ p.embedding_vector = NoVector
                                 \/ Len(p.embedding_vector) * EntryWidth
                                        = embedding_service'.dimension]_vars

(***************************************************************************)
(* Claims about the searches.                                              *)
(***************************************************************************)
\* The value an optional argument stands for: the one given, else the default.
ValueOr(x, default) == IF x.given THEN x.value ELSE default

\* The pages a search with threshold t has to return for the embedding e.
Expected(e, t) ==
    {p \in pages : p.embedding_vector # NoVector
                   /\ similarity_score(p.embedding_vector, e) >= t}

\* results is the part [offset, offset + limit) of Expected(e, t) ranked by
\* descending similarity: it has the length of that part, and its entry at
\* position i is a page of rank offset + i.
IsRankedSlice(results, e, t, limit, offset) ==
    LET expected == Expected(e, t)
        left == IF Cardinality(expected) > offset
                THEN Cardinality(expected) - offset ELSE 0
        score(p) == similarity_score(p.embedding_vector, e)
    IN
    /\ Len(results) = IF limit < left THEN limit ELSE left
    /\ \A i \in 1..Len(results) :
           \E p \in expected :
               /\ p.id = results[i].page_id
               /\ results[i].similarity_score = score(p)
               /\ Cardinality({x \in expected : score(x) > score(p)}) <= offset + i - 1
               /\ Cardinality({x \in expected : score(x) >= score(p)}) >= offset + i
    /\ \A i, j \in 1..Len(results) :
           i < j => /\ results[i].page_id # results[j].page_id
                    /\ results[i].similarity_score >= results[j].similarity_score

\* C7: when the query's embedding succeeds, semantic_search returns the
\* pages with a vector whose similarity is at least the caller's threshold
\* (the default when none is given), in descending similarity, cut to the
\* first `limit` of them.
C7_ThresholdSubsetRanked ==
    (response.op = "semantic_search" /\ response.query_embedding # NoVector) =>
        IsRankedSlice(response.results, response.query_embedding,
                      ValueOr(response.similarity_threshold, default_similarity_threshold),
                      ValueOr(response.limit, default_limit), 0)

\* C8: over one corpus, query and threshold, the results of
\* multilingual_search(limit=5, offset=0) and (limit=5, offset=5) share no
\* page, and the first followed by the second is the result of
\* (limit=10, offset=0).
C8_PagesOfResultsDisjoint ==
    \A i, j, k \in 1..Len(search_log) :
        (/\ search_log[i].limit = Given(5) /\ search_log[i].offset = Given(0)
         /\ search_log[j].limit = Given(5) /\ search_log[j].offset = Given(5)
         /\ search_log[k].limit = Given(10) /\ search_log[k].offset = Given(0)
         /\ search_log[i].query = search_log[j].query
         /\ search_log[i].query = search_log[k].query
         /\ search_log[i].similarity_threshold = search_log[j].similarity_threshold
         /\ search_log[i].similarity_threshold = search_log[k].similarity_threshold)
        => /\ {search_log[i].results[n].page_id : n \in 1..Len(search_log[i].results)}
                  \cap {search_log[j].results[n].page_id : n \in 1..Len(search_log[j].results)}
              = {}
           /\ search_log[i].results \o search_log[j].results = search_log[k].results

\* C9: when the query's embedding succeeds, multilingual_search returns as
\* total the number of pages with a vector and similarity at least the
\* threshold, whatever limit and offset are, and as results the part
\* [offset, offset + limit) of those pages ranked, so that offset plus the
\* number of results is at most the total when there are results; and the
\* endpoint answers with has_more, true exactly when offset plus the number
\* of results is below the total.
C9_TotalAndSlice ==
    /\ (response.op = "multilingual_search" /\ response.query_embedding # NoVector) =>
           LET t == ValueOr(response.similarity_threshold, multilingual_threshold)
               limit == ValueOr(response.limit, default_limit)
               offset == ValueOr(response.offset, 0)
           IN
           /\ response.total_count = Cardinality(Expected(response.query_embedding, t))
           /\ IsRankedSlice(response.results, response.query_embedding, t, limit, offset)
           /\ response.results # <<>>
                  => offset + Len(response.results) <= response.total_count
    /\ response.op = "POST /multilingual" =>
           /\ response.status = 200
           /\ response.has_more
                  = (response.offset + Len(response.results) < response.total_results)

(***************************************************************************)
(* Claims about the snippets.                                              *)
(***************************************************************************)
HasPrefix(s, prefix) ==
    Len(s) >= Len(prefix) /\ SubSeq(s, 1, Len(prefix)) = prefix

\* body is a stretch of text, with or without an ellipsis at either end.
DrawnFrom(body, text) ==
    \E i \in 1..(Len(text) + 1) : \E j \in (i - 1)..Len(text) :
        LET stretch == SubSeq(text, i, j) IN
        body \in {stretch, Ellipsis \o stretch, stretch \o Ellipsis,
                  Ellipsis \o stretch \o Ellipsis}

\* The language of a call: the declared one, else the one detected.
SnippetLanguage(r) ==
    IF r.query_language # None THEN r.query_language
    ELSE IF is_english(r.query) THEN En
    ELSE IF is_indonesian(r.query) THEN Id
    ELSE None

Marked(r, prefix, text) ==
    /\ HasPrefix(r.snippet, prefix)
    /\ DrawnFrom(SubSeq(r.snippet, Len(prefix) + 1, Len(r.snippet)), text)

Unmarked(r) ==
    /\ ~HasPrefix(r.snippet, EnPrefix)
    /\ ~HasPrefix(r.snippet, IdPrefix)
    /\ DrawnFrom(r.snippet, r.original_text)

\* The order of preference of a call whose language is English or
\* Indonesian, Usable saying which translations can be drawn from.
PrefersTranslation(r, Usable(_)) ==
    LET english == SnippetLanguage(r) = En
        own == IF english THEN r.en_translation ELSE r.id_translation
        other == IF english THEN r.id_translation ELSE r.en_translation
        own_prefix == IF english THEN EnPrefix ELSE IdPrefix
        other_prefix == IF english THEN IdPrefix ELSE EnPrefix
    IN
    IF Usable(own) THEN Marked(r, own_prefix, own)
    ELSE IF Usable(other) THEN Marked(r, other_prefix, other)
    ELSE Unmarked(r)

NonEmpty(t) == t # None /\ t # <<>>

NotBlank(t) == t # None /\ \E i \in 1..Len(t) : t[i] \notin Whitespace

\* C10: with L the declared query_language, else the detected one, the
\* snippet is drawn from the translation in L with L's marker when that
\* translation is non-empty, else from the other translation with its
\* marker when that one is non-empty, else from original_text unmarked.
C10_TranslationWhenNonEmpty ==
    (response.op = "_generate_multilingual_snippet"
     /\ SnippetLanguage(response) \in {En, Id})
        => PrefersTranslation(response, NonEmpty)

\* C10, amended: the same order of preference with "non-empty" read as
\* "holds a character that is not whitespace"; and a call whose language is
\* neither English nor Indonesian draws from original_text, unmarked.
C10_TranslationWhenNotBlank ==
    response.op = "_generate_multilingual_snippet" =>
        IF SnippetLanguage(response) \in {En, Id}
        THEN PrefersTranslation(response, NotBlank)
        ELSE Unmarked(response)

\* C10 witness: a query detected as English on a page with an English
\* translation has a snippet that starts with "[EN] ".
C10_EnglishSnippetMarked ==
    /\ response.op = "_generate_multilingual_snippet"
    /\ response.query_language = None
    /\ is_english(response.query)
    /\ NotBlank(response.en_translation)
    /\ HasPrefix(response.snippet, EnPrefix)

\* C15: when the embedding of the query fails (the provider call fails, the
\* query is empty after cleaning, the vector is refused, initialization
\* raises), semantic_search returns the empty list and multilingual_search
\* the empty list with total 0; neither raises, and no stored page or book
\* changes.
C15_EmbeddingFailureGivesEmpty ==
    [][(response'.op \in {"semantic_search", "multilingual_search"}
        /\ response'.query_embedding = NoVector) =>
           /\ ~response'.raised
           /\ response'.results = <<>>
           /\ response'.op = "multilingual_search" => response'.total_count = 0
           /\ pages' = pages
           /\ books' = books]_vars

\* C15, its case: a search for a text that stored pages hold has come back
\* empty on a deployment whose initialization raises.
C15_SearchOnUninitializableService ==
    /\ response.op = "multilingual_search"
    /\ ~InitializeSucceeds(embedding_service)
    /\ \E p \in pages : p.original_text = response.query /\ p.embedding_vector # NoVector
    /\ response.results = <<>>
    /\ response.total_count = 0

\* C16: semantic_search, multilingual_search and text_search never return
\* more results than the limit the caller supplies, whatever non-negative
\* limit that is, and never more than 10 when the caller supplies none.
C16_AtMostLimitResults ==
    response.op \in {"semantic_search", "multilingual_search", "text_search"}
        => Len(response.results) <= ValueOr(response.limit, default_limit)

\* C23: for every query, text_search returns only pages whose original_text
\* contains the query as a substring, letters compared without case, and
\* every result has the similarity_score 0.5.
C23_TextSearchSubstring ==
    response.op = "text_search" =>
        \A i \in 1..Len(response.results) :
            /\ response.results[i].similarity_score = text_search_score
            /\ \E p \in pages :
                   /\ p.id = response.results[i].page_id
                   /\ Find(Lower(p.original_text), Lower(response.query)) # -1

\* C24: get_similar_pages returns an empty list when the reference page does
\* not exist or has no stored vector.  Otherwise no result is the reference
\* page, every result is a page with a stored vector, the results come by
\* descending similarity to the reference vector, there are at most `limit`
\* of them, and no page is left out for its similarity: a call that ranked
\* returns every other page with a vector, up to the limit.
C24_SimilarPages ==
    response.op = "get_similar_pages" =>
        LET ref_page == {p \in pages : p.id = response.page_id}
            others == {p \in pages : p.embedding_vector # NoVector /\ p.id # response.page_id}
            n == Len(response.results)
        IN
        /\ (ref_page = {} \/ \A p \in ref_page : p.embedding_vector = NoVector)
               => response.results = <<>>
        /\ \A i \in 1..n :
               /\ response.results[i].page_id # response.page_id
               /\ \E p \in pages : /\ p.id = response.results[i].page_id
                                   /\ p.embedding_vector # NoVector
        /\ \A i, j \in 1..n :
               i < j => response.results[i].similarity_score
                            >= response.results[j].similarity_score
        /\ response.limit # Absent => n <= response.limit.value
        /\ (~response.raised /\ ref_page # {}
                /\ \A p \in ref_page : p.embedding_vector # NoVector)
               => n = (IF response.limit = Absent \/ response.limit.value > Cardinality(others)
                       THEN Cardinality(others) ELSE response.limit.value)

\* C24 (witness): a call for a page with a vector has ranked the other pages
\* and returned one whose similarity to the reference is below every
\* threshold the searches use, cut to a limit smaller than the candidates.
C24_LowSimilarityPageReturned ==
    /\ response.op = "get_similar_pages"
    /\ response.limit = Given(2)
    /\ Len(response.results) = 2
    /\ Cardinality({p \in pages : p.embedding_vector # NoVector}) > 3
    /\ \E i \in 1..Len(response.results) :
           response.results[i].similarity_score < multilingual_threshold

\* Whether the query occurs in the text at 0-based position i, letters
\* compared without case.
OccursAt(text, query, i) ==
    /\ i >= 0
    /\ i + Len(query) <= Len(text)
    /\ \A k \in 1..Len(query) : LowerChar(text[i + k]) = LowerChar(query[k])

Occurs(text, query) == \E i \in 0..Len(text) : OccursAt(text, query, i)

FirstOccurrence(text, query) ==
    CHOOSE i \in 0..Len(text) :
        /\ OccursAt(text, query, i)
        /\ \A j \in 0..(i - 1) : ~OccursAt(text, query, j)

\* The window of at most max_length characters that starts max_length / 3
\* characters before the first occurrence, or at position 0, with an
\* ellipsis on each side where the text goes on.
WindowSnippet(text, query, max_length) ==
    LET pos == FirstOccurrence(text, query)
        start == IF pos - (max_length \div 3) > 0 THEN pos - (max_length \div 3) ELSE 0
        end == IF start + max_length < Len(text) THEN start + max_length ELSE Len(text)
    IN
    (IF start > 0 THEN Ellipsis ELSE <<>>)
        \o SubSeq(text, start + 1, end)
        \o (IF end < Len(text) THEN Ellipsis ELSE <<>>)

\* The parts C28 states as the code has them: a text of at most max_length
\* characters, and a longer text in which the query occurs.
SnippetWholeOrWindow ==
    /\ Len(response.text) <= response.max_length => response.snippet = response.text
    /\ (Len(response.text) > response.max_length /\ Occurs(response.text, response.query))
           => response.snippet
                  = WindowSnippet(response.text, response.query, response.max_length)

\* C28 (as stated): for a text longer than max_length in which the query
\* does not occur, _generate_snippet returns the first max_length characters
\* of the text; a text of at most max_length characters is returned whole,
\* and when the query occurs the window around its first occurrence is
\* returned with the ellipses.
C28_NoOccurrenceGivesFirstCharacters ==
    response.op = "_generate_snippet" =>
        /\ SnippetWholeOrWindow
        /\ (Len(response.text) > response.max_length
                /\ ~Occurs(response.text, response.query))
               => response.snippet = SubSeq(response.text, 1, response.max_length)

\* C28 (amended): as stated, except that when the query does not occur in a
\* text longer than max_length the snippet is the first max_length
\* characters of the text followed by an ellipsis.
C28_NoOccurrenceGivesFirstCharactersAndEllipsis ==
    response.op = "_generate_snippet" =>
        /\ SnippetWholeOrWindow
        /\ (Len(response.text) > response.max_length
                /\ ~Occurs(response.text, response.query))
               => response.snippet
                      = SubSeq(response.text, 1, response.max_length) \o Ellipsis

\* C28 (witness): the query occurs, in another case, far enough into a long
\* text for the window to start inside the text and end before its end.
C28_WindowInsideText ==
    /\ response.op = "_generate_snippet"
    /\ response.query = <<"T", "O">>
    /\ Len(response.text) > response.max_length
    /\ Occurs(response.text, response.query)
    /\ FirstOccurrence(response.text, response.query) > response.max_length \div 3
    /\ Len(response.snippet) = response.max_length + 2 * Len(Ellipsis)

(***************************************************************************)
(* Claims about the embedding service.                                     *)
(***************************************************************************)
\* C11: under either provider every stored page whose vector is not null
\* holds a vector of exactly the service's dimension, and so does every
\* vector generate_embedding returns.
C11_VectorsHaveDimension ==
    /\ \A p \in pages :
           p.embedding_vector # NoVector
               => Len(p.embedding_vector) * EntryWidth = embedding_service.dimension
    /\ response.op = "generate_embedding" /\ ~response.raised /\ response.value # NoVector
           => Len(response.value) * EntryWidth = response.dimension

\* C11, its case: a page is stored with the vector of a Gemini model whose
\* answer has another length than the dimension.
C11_AdjustedVectorStored ==
    /\ embedding_service.provider = "gemini"
    /\ embedding_service.native_dimension # embedding_service.dimension
    /\ \E p \in pages : p.embedding_vector # NoVector

\* C19: under every configured provider, when the provider answers with a
\* vector of another length than the dimension, generate_embedding returns
\* that vector padded with zeros, or cut to its first elements, to exactly
\* the dimension.
C19_AnswerPaddedOrTruncated ==
    response.op = "generate_embedding" /\ response.answered # NoVector
        => response.value =
               [i \in 1..(response.dimension \div EntryWidth) |->
                    IF i <= Len(response.answered) THEN response.answered[i] ELSE 0]

\* C20: in every state of the service, before initialization too,
\* generate_embedding on a text that is empty after cleaning returns None,
\* raises nothing and calls no provider.
C20_EmptyTextReturnsNone ==
    response.op = "generate_embedding" /\ ReplaceNewlines(Strip(response.text)) = <<>>
        => ~response.raised /\ response.value = NoVector /\ ~response.called

\* C21: under every provider generate_embeddings_batch returns a list as
\* long as its input; slot i is None when texts[i] is empty after cleaning
\* or the provider cannot embed it, and is otherwise what generate_embedding
\* returns for texts[i], whatever happens to the other texts.
C21_BatchSlotsIndependent ==
    response.op = "generate_embeddings_batch" =>
        /\ ~response.raised
        /\ Len(response.value) = Len(response.texts)
        /\ \A i \in 1..Len(response.texts) :
               response.value[i] =
                   IF ReplaceNewlines(Strip(response.texts[i])) = <<>>
                      \/ ~response.provider_ok[i]
                   THEN NoVector
                   ELSE GenerateEmbedding(Initialize(response.service),
                                          response.texts[i], TRUE).value

\* C22: no embedding request is the one that meets a missing credential or
\* an unsupported provider name: a service that serves a request has been
\* constructed and initialized without error.
C22_ConfigurationCheckedBeforeRequests ==
    response.op \in {"generate_embedding", "generate_embeddings_batch"} =>
        /\ ~response.raised
        /\ InitializeSucceeds(response.service)

(***************************************************************************)
(* Claims about PDF extraction and OCR.                                    *)
(***************************************************************************)
\* The number of characters of a text that are not whitespace.
NonWhitespace(text) == Len(SelectSeq(text, LAMBDA c : c \notin Whitespace))

\* Real text: every line that is not blank is longer than 10 characters.
RealText(text) ==
    LET lines == StrippedLines(SplitLines(Strip(text))) IN
    \A i \in 1..Len(lines) : Len(lines[i]) > 10

\* C17: _process_pdf_with_smart_ocr returns no page twice; a page whose text
\* layer holds more than 50 non-whitespace characters of real text is
\* returned once, as text_extraction with its stripped text, and is not sent
\* to OCR; a page without a text layer is sent to OCR and is returned, as
\* ocr with the cleaned text, exactly when that text is longer than 10.
C17_OneMethodPerPage ==
    response.op = "_process_pdf_with_smart_ocr" =>
        \A k \in 1..Len(response.document) :
            LET page == response.document[k]
                attempt == response.attempts[k]
                emitted == {i \in 1..Len(response.valid_pages) :
                                response.valid_pages[i].page_number = k}
                cleaned == IF Strip(attempt.best_text) # <<>>
                           THEN clean_arabic_ocr_text(Strip(attempt.best_text))
                           ELSE <<>>
            IN
            /\ Cardinality(emitted) <= 1
            /\ (~page.raises /\ RealText(page.text) /\ NonWhitespace(page.text) > 50) =>
                   /\ ~attempt.sent
                   /\ \E i \in emitted :
                          /\ response.valid_pages[i].extraction_method = "text_extraction"
                          /\ response.valid_pages[i].text = Strip(page.text)
            /\ (~page.raises /\ Strip(page.text) = <<>> /\ page.raster_ok) =>
                   /\ attempt.sent
                   /\ attempt.tried # <<>>
                   /\ IF Len(cleaned) > 10
                      THEN \E i \in emitted :
                               /\ response.valid_pages[i].extraction_method = "ocr"
                               /\ response.valid_pages[i].text = cleaned
                      ELSE emitted = {}

\* C17, its case: of a document of two pages the first has come back as
\* text_extraction and the second, which has no text layer, as ocr.
C17_TextPageThenScannedPage ==
    /\ response.op = "_process_pdf_with_smart_ocr"
    /\ Len(response.document) = 2
    /\ response.document[2].text = <<>>
    /\ Len(response.valid_pages) = 2
    /\ response.valid_pages[1].extraction_method = "text_extraction"
    /\ response.valid_pages[2].extraction_method = "ocr"
    /\ ~response.attempts[1].sent

\* The OCR policy on the attempts a of one page, the length of a result
\* measured by Measure: the configurations are tried in the order of the
\* list; none is tried after one that returned more than 100; the one after
\* a configuration that raises is tried; the text kept is the longest
\* result, the earliest of the longest, or the empty text when no result
\* has a length.
OcrPolicy(a, Measure(_)) ==
    LET n == Len(a.tried)
        returned == {i \in 1..n : ~a.outcomes[i].raised}
        len(i) == Measure(a.outcomes[i].text)
    IN
    /\ a.tried = [i \in 1..n |-> i]
    /\ \A i \in returned : len(i) > 100 => i = n
    /\ \A i \in 1..n : (a.outcomes[i].raised /\ i < Len(a.outcomes)) => i < n
    /\ IF \A i \in returned : len(i) = 0 THEN a.best_text = <<>>
       ELSE \E i \in returned :
                /\ a.best_text = a.outcomes[i].text
                /\ \A j \in returned : len(j) <= len(i) /\ (j < i => len(j) < len(i))

\* The length of a text without the whitespace around it.
TrimmedLength(text) == Len(Strip(text))

\* C18 as stated: for each page sent to OCR the policy holds with the length
\* of a result counted in non-whitespace characters.
C18_LongestByNonWhitespace ==
    response.op \in {"_process_pdf_with_smart_ocr", "_extract_text_with_ocr"} =>
        \A k \in 1..Len(response.attempts) :
            response.attempts[k].sent => OcrPolicy(response.attempts[k], NonWhitespace)

\* C18 amended: for each page sent to OCR the policy holds with the length
\* of a result counted in characters once the whitespace around it is
\* stripped, the whitespace inside it included.
C18_LongestByTrimmedLength ==
    response.op \in {"_process_pdf_with_smart_ocr", "_extract_text_with_ocr"} =>
        \A k \in 1..Len(response.attempts) :
            response.attempts[k].sent => OcrPolicy(response.attempts[k], TrimmedLength)

\* C18, its case: the first configuration raised, the second returned a text
\* of ten letters, the third one of eleven characters with spaces in it,
\* and the third is the one kept.
C18_LaterLongerResultKept ==
    /\ response.op = "_process_pdf_with_smart_ocr"
    /\ Len(response.attempts) = 1
    /\ response.attempts[1].sent
    /\ response.attempts[1].tried = <<1, 2, 3>>
    /\ response.attempts[1].outcomes[1].raised
    /\ NonWhitespace(response.attempts[1].outcomes[2].text) = 10
    /\ response.attempts[1].best_text = response.attempts[1].outcomes[3].text
    /\ NonWhitespace(response.attempts[1].best_text) = 8

\* C27: the pages PDF extraction returns are in document page order, and
\* the page_number of each returned page is its 1-based position in the
\* returned list, not its raw PDF page index, also when blank or unreadable
\* pages were skipped before it; a page whose processing raises is skipped
\* and the pages after it are still processed.
C27_PageNumberIsPosition ==
    response.op = "_process_pdf_with_smart_ocr" =>
        LET n == Len(response.valid_pages) IN
        /\ \A i \in 1..n : response.valid_pages[i].page_number = i
        /\ \A i, j \in 1..n :
               i < j => response.valid_pages[i].page_number
                            < response.valid_pages[j].page_number
        /\ \A k \in 1..Len(response.document) :
               (/\ ~response.document[k].raises
                /\ has_meaningful_text(response.document[k].text))
                   => \E i \in 1..n : response.valid_pages[i].text
                                          = Strip(response.document[k].text)

\* The ASCII letters the OCR outcomes of this module are written in.
AsciiLetters == {"x", "y", "z"}

\* The characters C29 says the cleanup keeps.
Allowed(c) == c \in AsciiLetters \cup Digits \cup Punctuation \cup ArabicLetters

\* C29: OCR text cleanup removes only characters outside the allow-list:
\* every ASCII letter, ASCII digit, basic punctuation mark and Arabic letter
\* of the OCR result is still present, in order, in the cleaned text, apart
\* from the fixed glyph substitutions and the whitespace collapsing.
C29_AllowedCharactersKept ==
    response.op = "_extract_text_with_ocr" =>
        \A k \in 1..Len(response.attempts) :
            SelectSeq(Correct(response.attempts[k].best_text), Allowed)
                = SelectSeq(response.text, Allowed)

(***************************************************************************)
(* Claims about text files and Word documents.                             *)
(***************************************************************************)
\* The separator a text is split on: the first of triple newline, form feed
\* and double newline that occurs in it, and <<>> when none does.
ChosenSeparator(t) ==
    IF Find(t, TripleNewline) # -1 THEN TripleNewline
    ELSE IF Find(t, FormFeed) # -1 THEN FormFeed
    ELSE IF Find(t, DoubleNewline) # -1 THEN DoubleNewline
    ELSE <<>>

\* The 0-based positions at which t is cut: the occurrences of sep met from
\* position `from` on, each one starting after the end of the one before.
RECURSIVE CutsFrom(_, _, _)
CutsFrom(t, sep, from) ==
    LET at == {i \in from..(Len(t) - Len(sep)) : SubSeq(t, i + 1, i + Len(sep)) = sep} IN
    IF at = {} THEN <<>>
    ELSE LET i == CHOOSE x \in at : \A y \in at : x <= y IN
         <<i>> \o CutsFrom(t, sep, i + Len(sep))

\* The page candidates of a text, in the order of the text.
CandidatesOf(t) ==
    LET sep == ChosenSeparator(t)
        cuts == CutsFrom(t, sep, 0)
        first(k) == IF k = 1 THEN 1 ELSE cuts[k - 1] + Len(sep) + 1
        last(k) == IF k = Len(cuts) + 1 THEN Len(t) ELSE cuts[k]
        pieces == (Len(t) + chunk_size - 1) \div chunk_size
    IN
    IF sep = <<>>
    THEN [k \in 1..pieces |->
             SubSeq(t, (k - 1) * chunk_size + 1,
                    IF k * chunk_size < Len(t) THEN k * chunk_size ELSE Len(t))]
    ELSE [k \in 1..(Len(cuts) + 1) |-> SubSeq(t, first(k), last(k))]

\* The candidates whose trimmed length is greater than 10, trimmed.
Substantial(candidates) ==
    LET kept == SelectSeq(candidates, LAMBDA c : Len(Strip(c)) > 10) IN
    [i \in 1..Len(kept) |-> Strip(kept[i])]

PlainTextCall ==
    /\ response.op = "process_bulk_text_upload"
    /\ response.file.extension \in {"txt", "md", "rst"}
    /\ ~response.raised

WordCall ==
    /\ response.op = "process_bulk_text_upload"
    /\ response.file.extension \in {"doc", "docx"}
    /\ ~response.raised

\* C25: for plain-text input process_bulk_text_upload splits the text on
\* one separator chosen by priority (triple newline, else form feed, else
\* double newline, else chunks of 1000 characters) and returns, in their
\* original order and trimmed, exactly the candidates whose trimmed length
\* is greater than 10.
C25_PlainTextSplit ==
    PlainTextCall =>
        LET expected == Substantial(CandidatesOf(response.file.content.text)) IN
        /\ Len(response.pages) = Len(expected)
        /\ \A i \in 1..Len(expected) :
               /\ response.pages[i].text = expected[i]
               /\ response.pages[i].extraction_method = "text_extraction"

\* C25 (witness): a text that holds both a triple newline and a form feed
\* has been split, and two of its candidates were returned.
C25_TripleNewlineBeforeFormFeed ==
    /\ PlainTextCall
    /\ Find(response.file.content.text, TripleNewline) # -1
    /\ Find(response.file.content.text, FormFeed) # -1
    /\ Len(response.pages) = 2

\* The text of a Word document: its non-blank paragraphs joined by single
\* newlines, trimmed.
RECURSIVE JoinLines(_)
JoinLines(ps) ==
    IF ps = <<>> THEN <<>>
    ELSE IF Len(ps) = 1 THEN ps[1]
    ELSE ps[1] \o <<"\n">> \o JoinLines(Tail(ps))

WordText(paragraphs) ==
    Strip(JoinLines(SelectSeq(paragraphs, LAMBDA q : Strip(q) # <<>>)))

\* C26 (as stated): a Word document is extracted as a single page: at most
\* one unit is returned for it, whatever the length of its text, and the
\* unit is its non-empty paragraphs joined by single newlines.
C26_WordDocumentIsOnePage ==
    WordCall =>
        /\ Len(response.pages) <= 1
        /\ \A i \in 1..Len(response.pages) :
               response.pages[i].text = WordText(response.file.content.paragraphs)

\* C26 (amended): the text of a Word document is its non-blank paragraphs
\* joined by single newlines and trimmed, and that text is split by the
\* rule of plain text: the units returned are, in order and trimmed, the
\* candidates of the text longer than 10 characters, so that a text of more
\* than 1000 characters without a blank line comes back as several units.
C26_WordTextSplitLikePlainText ==
    WordCall =>
        LET expected == Substantial(CandidatesOf(WordText(response.file.content.paragraphs))) IN
        /\ Len(response.pages) = Len(expected)
        /\ \A i \in 1..Len(expected) :
               /\ response.pages[i].text = expected[i]
               /\ response.pages[i].extraction_method = "text_extraction"

\* C26 (witness): a Word document of two paragraphs whose text is longer
\* than 1000 characters has come back as two units.
C26_LongDocumentInTwoUnits ==
    /\ WordCall
    /\ Len(WordText(response.file.content.paragraphs)) > chunk_size
    /\ Len(response.pages) = 2

(***************************************************************************)
(* Claims about the translation handlers.                                  *)
(***************************************************************************)
\* A page without its two translations.
Untranslated(p) ==
    [id |-> p.id, book_id |-> p.book_id, page_number |-> p.page_number,
     original_text |-> p.original_text, embedding_vector |-> p.embedding_vector,
     page_image_url |-> p.page_image_url]

\* Whether a request (as its response records it) addresses page p, and
\* which value, if any, it carries for each translation.
Addresses(r, p) ==
    IF r.op = "translate_page" THEN p.id = r.page_id
    ELSE p.book_id = r.book_id /\ p.page_number = r.page_number

Carries(r, language) ==
    IF r.op = "translate_page"
    THEN (IF r.target_language = language THEN r.translated_text ELSE None)
    ELSE (IF language = "en" THEN r.en_translation ELSE r.id_translation)

====
